---- MODULE Spec2Model ----
(***************************************************************************)
(* State-machine model of the ingestion core of rag-of-all-trades:         *)
(* IngestionJob (tasks/base.py), MetadataTracker                           *)
(* (tasks/helper_classes/metadata_tracker.py), the content store written   *)
(* by VectorStoreManager.insert_documents, and the enumeration loops of    *)
(* the S3, Jira and MediaWiki connectors.                                  *)
(***************************************************************************)
EXTENDS Integers, Sequences, FiniteSets, Bags, TLC

(***************************************************************************)
(* Bounds of the model.                                                    *)
(***************************************************************************)
\* IngestionJob._seen_capacity, scaled down (10000 in __init__, 2 in
\* test_seen_add_lru_eviction).
SeenCapacity == 2
\* Highest version a key may reach in the ledger; behaviours in which a step
\* of process_item raised are followed up to version MaxVersion - 1.
MaxVersion == 3
\* Number of steps of process_item that may raise over a whole behaviour.
MaxFailures == 1
\* Number of items one run may be handed by list_items.
MaxItems == 2
\* Number of _seen_add calls in the Seen-Set specification.
MaxOps == 5
\* Number of rows of the ledger in the tracker specification.
MaxRows == 3
\* Number of rows of the store in the tracker specification.
MaxDocs == 2
\* Number of items each job instance processes in the concurrency specification.
MaxWorkerItems == 2
\* Number of listing requests a connector may send in one run.
MaxRequests == 3
\* The largest JiraIngestionJob.max_results a job is configured with (a run
\* draws it from 1..JiraMaxResults) and the page cap of list_items (100),
\* scaled down so that a page is capped, a second page is requested and a page
\* is cut short by max_results.
JiraMaxResults == 3
JiraPageCap == 2
\* Number of items of the source, of runs over it and of changes of an item's
\* content in the repeated-run specification.
MaxSourceItems == 2
MaxRuns == 3
MaxChanges == 1
\* Number of failures (a step of process_item raising, a fetch that fails) in
\* the repeated-run specification.
MaxRunFailures == 2
\* The largest max_retries a _make_api_request call is made with in the
\* request specification (the default of MediaWikiIngestionJob.max_retries).
HttpMaxRetries == 3
\* MediaWikiIngestionJob.max_retries (default 3) and batch_size (default 50),
\* scaled down.
MwMaxRetries == 2
MwBatchSize == 2

(***************************************************************************)
(* Values.                                                                 *)
(***************************************************************************)
None == "None"

\* Raw contents a source can return for an item.
Contents == {"", "   ", "old", "new"}

\* variant: the content tested for emptiness without being stripped
strip_Identity(s) == s

\* raw_content.strip(): the contents of the model hold blanks only at the
\* ends when they are entirely blank.
strip(s) == IF s \in {"", "   "} THEN "" ELSE s

\* hashlib.md5(raw_content.encode("utf-8")).hexdigest()
md5(s) ==
  CASE s = "" -> "d41d8cd98f00b204e9800998ecf8427e"
    [] s = "   " -> "628631f07321b22d8c176c200c855e1b"
    [] s = "old" -> "149603e6c03516362a8da23f624db945"
    [] s = "new" -> "22af645d1859cb5ca6da0c484f1f37ea"

Checksums == {md5(c) : c \in Contents}

(***************************************************************************)
(* Items and their keys.  An item is the IngestionItem of                  *)
(* tasks/helper_classes/ingestion_item.py; source_ref is the object key as *)
(* a sequence of characters.                                               *)
(***************************************************************************)
Items ==
  { [source_ref |-> <<"a", "/", "b">>, last_modified |-> "2024-01-01T00:00:00"],
    [source_ref |-> <<"a", "_", "b">>, last_modified |-> "2024-01-01T00:00:00"],
    [source_ref |-> <<"c">>, last_modified |-> None] }

\* str(last_modified) of process_item
str(t) == IF t = None THEN "None"
          ELSE IF t = "2024-01-01T00:00:00" THEN "2024-01-01 00:00:00" ELSE t

\* key[:255]
MaxKeyLen == 255

\* unicodedata.normalize("NFKD", key).encode("ascii", "ignore"): an accented
\* letter decomposes into its base letter and a combining mark, which is
\* dropped; any other non-ASCII character is dropped whole.
AsciiChars == {"a", "b", "c", "e", "_", "-", ".", "/", " ", "\\", "#"}
RECURSIVE nfkd_ascii(_)
nfkd_ascii(key) ==
  IF key = <<>> THEN <<>>
  ELSE LET ch == Head(key)
           out == IF ch \in AsciiChars THEN <<ch>>
                  ELSE IF ch = "e-acute" THEN <<"e">> ELSE <<>>
       IN out \o nfkd_ascii(Tail(key))

\* re.sub(r"[ \\/]+", "_", key): every maximal run of spaces, backslashes
\* and slashes becomes one underscore.
Separators == {" ", "\\", "/"}
RECURSIVE collapse_separators(_, _)
collapse_separators(key, inRun) ==
  IF key = <<>> THEN <<>>
  ELSE IF Head(key) \in Separators
       THEN (IF inRun THEN <<>> ELSE <<"_">>) \o collapse_separators(Tail(key), TRUE)
       ELSE <<Head(key)>> \o collapse_separators(Tail(key), FALSE)

\* re.sub(r"[^a-zA-Z0-9\-_\.]", "", key)
SafeChars == {"a", "b", "c", "e", "_", "-", "."}
keep_safe(key) == SelectSeq(key, LAMBDA ch : ch \in SafeChars)

truncate(key, n) == IF Len(key) <= n THEN key ELSE SubSeq(key, 1, n)

sanitize_s3_key(key) ==
  truncate(keep_safe(collapse_separators(nfkd_ascii(key), FALSE)), MaxKeyLen)

get_item_name(item) == sanitize_s3_key(item.source_ref)

Keys == {get_item_name(i) : i \in Items}

source_type == "s3"
source_name == "test-source"

(***************************************************************************)
(* MetadataTracker over the ledger (table "metadata") and the content      *)
(* store (table "data_embeddings").  A table is the bag of its rows: no    *)
(* query of the program depends on the order of the rows.                  *)
(***************************************************************************)
Max(S) == CHOOSE x \in S : \A y \in S : y <= x

RowsOf(ledger, key) == {r \in BagToSet(ledger) : r.key = key}

\* variant: the query without filter(MetaData.key == key)
get_latest_record_AnyKey(ledger, key) ==
  LET rows == BagToSet(ledger)
      top == Max({r.version : r \in rows})
  IN IF rows = {} THEN { <<>> }
     ELSE { <<[checksum |-> r.checksum, version |-> r.version]>> :
              r \in {x \in rows : x.version = top} }

\* query(checksum, version).filter(key == key).order_by(version.desc()).first():
\* the possible results, <<>> for no row, as the database may return any of
\* the rows that share the highest version.
get_latest_record(ledger, key) ==
  LET rows == RowsOf(ledger, key)
      top == Max({r.version : r \in rows})
  IN IF rows = {} THEN { <<>> }
     ELSE { <<[checksum |-> r.checksum, version |-> r.version]>> :
              r \in {x \in rows : x.version = top} }

\* variant: record_metadata replacing the rows of the key (an upsert)
record_metadata_Upsert(ledger, key, checksum, version, chunks, last_modified, extra_metadata) ==
  LET kept == {r \in BagToSet(ledger) : r.key # key}
  IN [r \in kept |-> ledger[r]]
       (+) SetToBag({[key |-> key, checksum |-> checksum, version |-> version,
                      metadata_content |->
                        [k \in {"chunks", "source"} \cup DOMAIN extra_metadata |->
                           IF k \in DOMAIN extra_metadata THEN extra_metadata[k]
                           ELSE IF k = "chunks" THEN chunks ELSE "generic"],
                      last_modified |-> last_modified]})

\* db.add(MetaData(key, checksum, version, metadata_content, last_modified))
\* and the commit of get_db_session.  models/metadata.py declares
\* last_modified NOT NULL; a commit refused by the database is one of the
\* ways in which the step record_metadata raises in process_item.
\* with metadata_content = {"chunks": chunks, "source": "generic",
\* **extra_metadata}
record_metadata(ledger, key, checksum, version, chunks, last_modified, extra_metadata) ==
  LET base == [k \in {"chunks", "source"} |->
                 IF k = "chunks" THEN chunks ELSE "generic"]
      metadata_content ==
        [k \in DOMAIN base \cup DOMAIN extra_metadata |->
           IF k \in DOMAIN extra_metadata THEN extra_metadata[k] ELSE base[k]]
  IN ledger (+) SetToBag({[key |-> key, checksum |-> checksum, version |-> version,
                           metadata_content |-> metadata_content,
                           last_modified |-> last_modified]})

\* the rows of the store with a given key_text
DocsOf(store, key) == {d \in BagToSet(store) : d.key_text = key}

\* variant: the delete statement without its where clause
delete_previous_embeddings_All(store, key) == EmptyBag

\* delete(DataEmbeddings).where(DataEmbeddings.key_text == key)
delete_previous_embeddings(store, key) ==
  LET kept == {d \in BagToSet(store) : d.key_text # key}
  IN [d \in kept |-> store[d]]

\* VectorStoreManager.insert_documents: every document becomes a row of
\* data_embeddings; key_text and checksum_text are the generated columns
\* metadata_ ->> 'key' and metadata_ ->> 'checksum'.
RECURSIVE insert_documents(_, _)
insert_documents(store, docs) ==
  IF docs = <<>> THEN store
  ELSE insert_documents(
         store (+) SetToBag({[text |-> Head(docs).text,
                              key_text |-> Head(docs).metadata["key"],
                              checksum_text |-> Head(docs).metadata["checksum"],
                              version |-> Head(docs).metadata["version"]]}),
         Tail(docs))

(***************************************************************************)
(* Seen-Set: the OrderedDict _seen as the sequence of its keys, oldest     *)
(* first.                                                                  *)
(***************************************************************************)
InSeq(x, q) == \E i \in 1..Len(q) : q[i] = x

\* variant: _seen_add without move_to_end
_seen_add_NoRefresh(seen, capacity, checksum) ==
  IF InSeq(checksum, seen)
  THEN [ret |-> FALSE, seen |-> seen]
  ELSE LET added == Append(seen, checksum)
       IN [ret |-> TRUE,
           seen |-> IF Len(added) > capacity THEN Tail(added) ELSE added]

\* variant: _seen_add reporting every checksum as new
_seen_add_AlwaysNew(seen, capacity, checksum) ==
  LET added == Append(SelectSeq(seen, LAMBDA c : c # checksum), checksum)
  IN [ret |-> TRUE,
      seen |-> IF Len(added) > capacity THEN Tail(added) ELSE added]

\* IngestionJob._seen_add: the returned bool and the new _seen
_seen_add(seen, capacity, checksum) ==
  IF InSeq(checksum, seen)
  THEN [ret |-> FALSE,
        seen |-> Append(SelectSeq(seen, LAMBDA c : c # checksum), checksum)]
  ELSE LET added == Append(seen, checksum)
       IN [ret |-> TRUE,
           seen |-> IF Len(added) > capacity THEN Tail(added) ELSE added]

(***************************************************************************)
(* Document metadata.                                                      *)
(***************************************************************************)
RESERVED_METADATA_KEYS ==
  {"source", "key", "checksum", "version", "format",
   "source_name", "file_name", "last_modified"}

\* variant: the dict literal with the version of a first ingestion
standard_metadata_VersionOne(item_name, new_checksum, version, last_modified) ==
  [k \in RESERVED_METADATA_KEYS |->
     CASE k = "source" -> source_type
       [] k = "key" -> item_name
       [] k = "checksum" -> new_checksum
       [] k = "version" -> 1
       [] k = "format" -> "markdown"
       [] k = "source_name" -> source_name
       [] k = "file_name" -> item_name
       [] k = "last_modified" -> str(last_modified)]

\* the dict literal of process_item
standard_metadata(item_name, new_checksum, version, last_modified) ==
  [k \in RESERVED_METADATA_KEYS |->
     CASE k = "source" -> source_type
       [] k = "key" -> item_name
       [] k = "checksum" -> new_checksum
       [] k = "version" -> version
       [] k = "format" -> "markdown"
       [] k = "source_name" -> source_name
       [] k = "file_name" -> item_name
       [] k = "last_modified" -> str(last_modified)]

\* variant: metadata.update(extra)
merge_extra_Update(metadata, extra) ==
  [k \in DOMAIN metadata \cup DOMAIN extra |->
     IF k \in DOMAIN extra THEN extra[k] ELSE metadata[k]]

\* for k, v in extra.items(): if k not in RESERVED_METADATA_KEYS: metadata[k] = v
merge_extra(metadata, extra) ==
  LET taken == {k \in DOMAIN extra : k \notin RESERVED_METADATA_KEYS}
  IN [k \in DOMAIN metadata \cup taken |->
        IF k \in taken THEN extra[k] ELSE metadata[k]]

(***************************************************************************)
(* IngestionJob.process_item as a function of the job's state (self: the   *)
(* Seen-Set, the ledger, the store), the item, and what the collaborators  *)
(* do during this call (inp): the content get_raw_content returns, the     *)
(* step that raises ("none" when no step does), the row get_latest_record  *)
(* returns, and the map get_extra_metadata returns.  The result holds the  *)
(* return value, the new state, the collaborator calls in order, and the   *)
(* documents built for insert_documents.                                   *)
(***************************************************************************)
Steps == <<"get_raw_content", "get_item_name", "get_latest_record",
           "delete_previous_embeddings", "get_extra_metadata",
           "insert_documents", "record_metadata">>
StepNames == {Steps[i] : i \in 1..Len(Steps)}

Called(s, step) == [s EXCEPT !.calls = Append(@, step)]

\* variant: except Exception: ... return 1
Caught_ReturnsOne(s, step) ==
  [Called(s, step) EXCEPT !.ret = 1, !.raised = TRUE, !.outcome = "failed"]

\* except Exception as e: logger.exception(...); return 0
Caught(s, step) ==
  [Called(s, step) EXCEPT !.ret = 0, !.raised = TRUE, !.outcome = "failed"]

Returned(s, ret, outcome) == [s EXCEPT !.ret = ret, !.outcome = outcome]

\* variant: the comparison of checksums left out
is_unchanged_Never(latest, new_checksum) == FALSE

\* if latest and latest.checksum == new_checksum
is_unchanged(latest, new_checksum) ==
  latest # <<>> /\ latest[1].checksum = new_checksum

\* variant: version = latest.version if latest else 1
next_version_SameVersion(latest) == IF latest # <<>> THEN latest[1].version ELSE 1

\* variant: version = (latest.version + 2) if latest else 1
next_version_SkipsOne(latest) == IF latest # <<>> THEN latest[1].version + 2 ELSE 1

\* version = (latest.version + 1) if latest else 1
next_version(latest) == IF latest # <<>> THEN latest[1].version + 1 ELSE 1

\* variant: the check "if latest" before the delete left out
has_previous_Never(latest) == FALSE

\* if latest: ... self.metadata_tracker.delete_previous_embeddings(item_name)
has_previous(latest) == latest # <<>>

\* variant: record_metadata called before insert_documents
insert_and_record_RecordFirst(s, docs, row, fail) ==
  IF fail = "record_metadata" THEN Caught(s, "record_metadata") ELSE
  LET s7 == [Called(s, "record_metadata") EXCEPT
               !.ledger = record_metadata(@, row.key, row.checksum, row.version, 1,
                                          row.last_modified,
                                          [k \in {"source_name"} |-> source_name])]
  IN
  IF fail = "insert_documents" THEN Caught(s7, "insert_documents") ELSE
  LET s8 == [Called(s7, "insert_documents") EXCEPT
               !.store = insert_documents(@, docs)]
  IN Returned(s8, 1, "ingested")

\* self.vector_manager.insert_documents([docs]);
\* self.metadata_tracker.record_metadata(item_name, new_checksum, version, 1,
\* last_modified, extra_metadata={"source_name": self.source_name}); return 1
insert_and_record(s, docs, row, fail) ==
  IF fail = "insert_documents" THEN Caught(s, "insert_documents") ELSE
  LET s7 == [Called(s, "insert_documents") EXCEPT
               !.store = insert_documents(@, docs)]
  IN
  IF fail = "record_metadata" THEN Caught(s7, "record_metadata") ELSE
  LET s8 == [Called(s7, "record_metadata") EXCEPT
               !.ledger = record_metadata(@, row.key, row.checksum, row.version, 1,
                                          row.last_modified,
                                          [k \in {"source_name"} |-> source_name])]
  IN Returned(s8, 1, "ingested")

process_item(self, item, inp) ==
  LET s0 == [seen |-> self.seen, ledger |-> self.ledger, store |-> self.store,
             calls |-> <<>>, docs |-> <<>>, ret |-> 0, raised |-> FALSE,
             outcome |-> "", version |-> 0]
  IN
  IF inp.fail = "get_raw_content" THEN Caught(s0, "get_raw_content") ELSE
  LET raw_content == inp.content
      s1 == Called(s0, "get_raw_content")
  IN
  IF strip(raw_content) = "" THEN Returned(s1, 0, "skipped-empty") ELSE
  LET new_checksum == md5(raw_content)
      added == _seen_add(s1.seen, SeenCapacity, new_checksum)
      s2 == [s1 EXCEPT !.seen = added.seen]
  IN
  IF ~added.ret THEN Returned(s2, 0, "skipped-duplicate") ELSE
  IF inp.fail = "get_item_name" THEN Caught(s2, "get_item_name") ELSE
  LET item_name == get_item_name(item)
      last_modified == item.last_modified
      s3 == Called(s2, "get_item_name")
  IN
  IF inp.fail = "get_latest_record" THEN Caught(s3, "get_latest_record") ELSE
  LET latest == inp.latest
      s4 == Called(s3, "get_latest_record")
  IN
  IF is_unchanged(latest, new_checksum)
  THEN Returned(s4, 0, "skipped-unchanged") ELSE
  IF has_previous(latest) /\ inp.fail = "delete_previous_embeddings"
  THEN Caught(s4, "delete_previous_embeddings") ELSE
  LET s5 == IF has_previous(latest)
            THEN [Called(s4, "delete_previous_embeddings") EXCEPT
                    !.store = delete_previous_embeddings(@, item_name)]
            ELSE s4
      version == next_version(latest)
      metadata == standard_metadata(item_name, new_checksum, version, last_modified)
  IN
  IF inp.fail = "get_extra_metadata" THEN Caught(s5, "get_extra_metadata") ELSE
  LET docs == <<[text |-> raw_content, metadata |-> merge_extra(metadata, inp.extra)]>>
      s6 == [Called(s5, "get_extra_metadata") EXCEPT
               !.version = version, !.docs = docs]
  IN insert_and_record(s6, docs,
                       [key |-> item_name, checksum |-> new_checksum,
                        version |-> version, last_modified |-> last_modified],
                       inp.fail)

\* variant: a get_raw_content that returns what it has when the fetch fails
get_raw_content_Partial(fetch, body) == body

\* S3IngestionJob.get_raw_content: except Exception: return "" around
\* get_object; MediaWikiIngestionJob.get_raw_content: return "" when
\* _get_page_info gives None (page missing, request failed).  body is the
\* text the source holds for the item.
get_raw_content(fetch, body) == IF fetch = "failed" THEN "" ELSE body

(***************************************************************************)
(* IngestionJob.run: the loop body and the two return statements.          *)
(***************************************************************************)
\* variant: if count == 0: pass else: total += count
run_count_SkipsNotCounted(total, skipped, count) ==
  IF count = 0 THEN [total |-> total, skipped |-> skipped]
  ELSE [total |-> total + count, skipped |-> skipped]

\* if count == 0: skipped += 1 else: total += count
run_count(total, skipped, count) ==
  IF count = 0 THEN [total |-> total, skipped |-> skipped + 1]
  ELSE [total |-> total + count, skipped |-> skipped]

\* "[name] Completed: {total} ingested, {skipped} skipped"
run_completed(total, skipped) ==
  [kind |-> "Completed", ingested |-> total, skipped |-> skipped]

\* variant: the except clause reporting without the partial totals
run_failed_NoTotals(total, skipped) ==
  [kind |-> "Job failed", ingested |-> 0, skipped |-> 0]

\* "[name] Job failed: {e}. Partial results: {total} ingested, {skipped} skipped"
run_failed(total, skipped) ==
  [kind |-> "Job failed", ingested |-> total, skipped |-> skipped]

NoResult == [kind |-> "", ingested |-> 0, skipped |-> 0]

(***************************************************************************)
(* State.                                                                  *)
(***************************************************************************)
VARIABLES
  seen,      \* IngestionJob._seen of the current job instance
  ledger,    \* rows of table "metadata"
  store,     \* rows of table "data_embeddings"
  pc,        \* "idle": constructed, "iterating": inside run(), "returned"
  total,     \* local total of run()
  skipped,   \* local skipped of run()
  result,    \* what run() returned
  yielded,   \* history: the number of items list_items yielded in this run
  ones,      \* history: the number of process_item calls of this run that returned 1
  fetchRaised, \* history: the number of calls of this run in which get_raw_content raised
  call,      \* history: the last process_item call
  ingested,  \* history: the content of each item's last full ingestion
  ingests,   \* history: per key, the process_item calls that returned 1
  inserted,  \* history: the keys for which an insert_documents call completed
  failures,  \* history: the process_item calls in which a step raised
  ops,       \* Seen-Set specification: the number of _seen_add calls made
  touch,     \* Seen-Set specification: per checksum, the call that last touched it
  lastAdd,   \* Seen-Set specification: the last _seen_add call
  conn,      \* connector specification: the connector whose list_items runs
  gen,       \* connector specification: the position of the list_items generator
  enumFailed, \* history: a listing request of this run failed for good
  query,     \* tracker specification: the last call of a tracker operation
  ctor,      \* configuration specification: the last construction of a job
  abort,     \* cancellation specification: the run was asked to abort
  workers,   \* concurrency specification: per job instance, its position
  http,      \* request specification: the _make_api_request call under way
  runs       \* repeated-run specification: the source and the run under way

vars == <<seen, ledger, store, pc, total, skipped, result, yielded, ones, fetchRaised,
          call, ingested, ingests, inserted, failures, ops, touch, lastAdd,
          conn, gen, enumFailed, query, ctor, abort, workers, http,
          runs>>

NoExtra == [k \in {} |-> ""]

\* a value a connector might supply for metadata key k
Supplied(k) ==
  CASE k = "version" -> 99
    [] k \in {"key", "file_name"} -> <<"overwrite">>
    [] OTHER -> "overwrite"

\* the maps get_extra_metadata may return
ExtraMaps ==
  { [k \in D |-> Supplied(k)] :
      D \in { {}, RESERVED_METADATA_KEYS \cup {"url"} } }

\* no _seen_add call yet
NoAdd == [x |-> "", ret |-> FALSE, was |-> 0]

\* history of the generator: no request sent, no response received, no
\* item yielded yet
NoRequest == [token |-> None, start_at |-> 0, max_results |-> 0]
NoResponse == [bucket |-> 0, kind |-> "", truncated |-> FALSE, next |-> None]
NoItem == [id |-> <<>>, source_ref |-> <<>>]

\* no list_items generator; sent, prev, listed, nth and item are history:
\* the parameters of the last listing request, the last response, the
\* entries it listed, the number of them yielded and the last item yielded
NoGen ==
  [pos |-> "none", bucket |-> 0, token |-> None, more |-> FALSE,
   start_at |-> 0, fetched |-> 0, page_len |-> 0, attempt |-> 0,
   pages |-> <<>>, page_batch |-> <<>>, buffer |-> <<>>, ended |-> FALSE,
   requests |-> 0, sent |-> NoRequest, prev |-> NoResponse, listed |-> <<>>,
   nth |-> 0, item |-> NoItem, max_results |-> 0, received |-> 0,
   calls |-> 0, delays |-> 0]

\* the job instances of the concurrency specification
Workers == {1, 2}

\* a job instance that has not started: its Seen-Set, the item it is
\* processing, the step it is about to take, the record it read, and as
\* history the number of items it has processed and the ledger and store
\* its items produce when no other job runs
NoWork ==
  [seen |-> <<>>, pos |-> "idle", content |-> "", latest |-> <<>>, done |-> 0,
   alone |-> [ledger |-> EmptyBag, store |-> EmptyBag]]

\* no job constructed yet
\* no _make_api_request call: the position of the call, its max_retries, the
\* classes of the exception response.json() raises in this installation, the
\* attempt of the for loop, and as history the number of requests sent, the
\* responses they got, the sleeps made and the value returned
NoHttp ==
  [pos |-> "idle", max_retries |-> 0, json_error |-> {}, attempt |-> 0,
   requests |-> 0, responses |-> <<>>, sleeps |-> <<>>, ret |-> None]

\* the per-run counts of the repeated-run specification: what the run
\* reported as ingested, the delete_previous_embeddings and insert_documents
\* calls it made, the ledger rows it added
NoReport == [ingested |-> 0, deletes |-> 0, inserts |-> 0, rows |-> 0]

\* no source: the items list_items yields, in order, the content the source
\* holds for each item, the position of the run under way, the index of the
\* next item, and as history the runs completed, the content changes made,
\* the steps that raised, whether no step raised in the run under way,
\* whether a run without a raising step has completed since the last
\* change, whether one had when the last run started, the counts of the
\* last run, the outcome of each item's last
\* process_item call, and the items whose last update deleted the previous
\* embeddings and then failed in insert_documents, and whose content has not
\* changed since
NoRuns ==
  [pos |-> "none", items |-> <<>>, content |-> [i \in Items |-> ""],
   nth |-> 0, done |-> 0, changes |-> 0, failures |-> 0, clean |-> TRUE,
   settled |-> FALSE, steady |-> FALSE, report |-> NoReport,
   outcome |-> [i \in Items |-> ""], broken |-> {}]

NoCtor == [type |-> "", via |-> "", cfg |-> <<>>, raised |-> FALSE, error |-> ""]

\* no tracker call yet
NoQuery ==
  [asked |-> FALSE, op |-> "", key |-> <<>>, row |-> <<>>, raised |-> FALSE,
   ended |-> "", session |-> "none", before |-> 0]

NoCall ==
  [item |-> [source_ref |-> <<>>, last_modified |-> None], content |-> "",
   fetch |-> "", checksum |-> "", cached_url |-> None, extra |-> NoExtra, ret |-> 0, raised |-> FALSE, outcome |-> "",
   calls |-> <<>>, docs |-> <<>>, version |-> 0, rerun |-> FALSE,
   first |-> FALSE]

Init ==
  /\ seen = <<>>
  /\ ledger = EmptyBag
  /\ store = EmptyBag
  /\ pc = "idle"
  /\ total = 0
  /\ skipped = 0
  /\ result = NoResult
  /\ yielded = 0
  /\ ones = 0
  /\ fetchRaised = 0
  /\ call = NoCall
  /\ ingested = [i \in Items |-> None]
  /\ ingests = [k \in Keys |-> 0]
  /\ inserted = {}
  /\ failures = 0
  /\ ops = 0
  /\ touch = [c \in Checksums |-> 0]
  /\ lastAdd = NoAdd
  /\ conn = "none"
  /\ gen = NoGen
  /\ enumFailed = FALSE
  /\ query = NoQuery
  /\ ctor = NoCtor
  /\ abort = FALSE
  /\ workers = [w \in Workers |-> NoWork]
  /\ http = NoHttp
  /\ runs = NoRuns

db == <<ledger, store>>
history == <<ingested, ingests, inserted, failures>>
seenHistory == <<ops, touch, lastAdd>>
connector == <<conn, gen, enumFailed>>
side == <<query, ctor, abort, workers, http, runs>>
notTracker == <<ctor, abort, workers, http, runs>>
notConfig == <<query, abort, workers, http, runs>>
notAbort == <<query, ctor, workers, http, runs>>
notWorkers == <<query, ctor, abort, http, runs>>
notHttp == <<query, ctor, abort, workers, runs>>
notRuns == <<query, ctor, abort, workers, http>>

\* IngestionJob.__init__ of the next job instance (celery_app.run_source
\* builds a job for every run): an empty Seen-Set
Construct ==
  /\ pc = "returned"
  /\ pc' = "idle"
  /\ seen' = <<>>
  /\ total' = 0 /\ skipped' = 0 /\ result' = NoResult
  /\ yielded' = 0 /\ ones' = 0 /\ fetchRaised' = 0 /\ call' = NoCall
  /\ UNCHANGED <<db, history, seenHistory, side, connector>>

\* run() up to the for statement: total = 0, skipped = 0, list_items()
StartRun ==
  /\ pc \in {"idle", "returned"}
  /\ pc' = "iterating"
  /\ total' = 0 /\ skipped' = 0 /\ result' = NoResult
  /\ yielded' = 0 /\ ones' = 0 /\ fetchRaised' = 0 /\ call' = NoCall
  /\ UNCHANGED <<seen, db, history, seenHistory, side>>

\* run() of a job whose list_items is left open
RunStart == StartRun /\ UNCHANGED connector

\* the bound on versions after f raising calls
VersionCap(f) == IF f = 0 THEN MaxVersion ELSE MaxVersion - 1

\* one iteration of the for loop of run(): list_items yields item,
\* process_item(item) runs with a step in fails raising, the counters move;
\* extras are the maps the job's get_extra_metadata may return, urls the
\* locators its get_raw_content may store in item._metadata_cache and
\* fetches the outcomes of the request get_raw_content sends to the source
Iterate(item, fails, extras, urls, fetches) ==
  /\ pc = "iterating"
  /\ yielded < MaxItems
  /\ \E body \in Contents, fetch \in fetches, fail \in fails, extra \in extras,
        url \in urls, latest \in get_latest_record(ledger, get_item_name(item)) :
     \E content \in { get_raw_content(fetch, body) } :
     \E r \in { process_item([seen |-> seen, ledger |-> ledger, store |-> store],
                             item,
                             [content |-> content, fail |-> fail,
                              latest |-> latest, extra |-> extra]) } :
       LET n == run_count(total, skipped, r.ret)
           key == get_item_name(item)
       IN /\ fail = "get_raw_content" => content = ""
          /\ r.raised <=> fail # "none"
          /\ r.raised => failures < MaxFailures
          /\ r.version <= VersionCap(IF r.raised THEN failures + 1 ELSE failures)
          /\ r.raised => \A row \in BagToSet(ledger) : row.version < MaxVersion
          /\ extra # NoExtra =>
               InSeq("get_extra_metadata", r.calls) /\ fail # "get_extra_metadata"
          /\ seen' = r.seen
          /\ ledger' = r.ledger
          /\ store' = r.store
          /\ total' = n.total
          /\ skipped' = n.skipped
          /\ yielded' = yielded + 1
          /\ ones' = IF r.ret = 1 THEN ones + 1 ELSE ones
          /\ fetchRaised' = IF fail = "get_raw_content" THEN fetchRaised + 1
                            ELSE fetchRaised
          /\ call' = [item |-> item, content |-> content, fetch |-> fetch,
                      cached_url |-> IF fail = "get_raw_content" \/ content = ""
                                     THEN None ELSE url,
                      checksum |-> IF strip(content) = "" THEN "" ELSE md5(content),
                      extra |-> extra, ret |-> r.ret,
                      raised |-> r.raised, outcome |-> r.outcome,
                      calls |-> r.calls, docs |-> r.docs, version |-> r.version,
                      rerun |-> ingested[item] = content,
                      first |-> key \notin inserted]
          /\ ingested' = IF r.ret = 1 THEN [ingested EXCEPT ![item] = content]
                         ELSE ingested
          /\ ingests' = IF r.ret = 1 THEN [ingests EXCEPT ![key] = @ + 1]
                        ELSE ingests
          /\ inserted' = IF InSeq("insert_documents", r.calls)
                                /\ fail # "insert_documents"
                         THEN inserted \cup {key} ELSE inserted
          /\ failures' = IF r.raised THEN failures + 1 ELSE failures
  /\ UNCHANGED <<pc, result, seenHistory, side>>

\* an iteration in which no step raises
RunItem == \E item \in Items : Iterate(item, {"none"}, ExtraMaps, {None}, {"ok"})
  /\ UNCHANGED connector

\* an iteration in which a step of process_item raises
RunItemRaises ==
  \E item \in Items : Iterate(item, StepNames, ExtraMaps, {None}, {"ok"})
  /\ UNCHANGED connector

\* list_items is exhausted: return result_msg
RunCompleted ==
  /\ pc = "iterating"
  /\ pc' = "returned"
  /\ result' = run_completed(total, skipped)
  /\ call' = NoCall
  /\ UNCHANGED <<seen, db, total, skipped, yielded, ones, fetchRaised, history,
                 seenHistory, side, connector>>

\* list_items raises: the except clause of run()
RunFailed ==
  /\ pc = "iterating"
  /\ pc' = "returned"
  /\ result' = run_failed(total, skipped)
  /\ call' = NoCall
  /\ UNCHANGED <<seen, db, total, skipped, yielded, ones, fetchRaised, history,
                 seenHistory, side, connector>>

Next ==
  \/ Construct
  \/ RunStart
  \/ RunItem
  \/ RunItemRaises
  \/ RunCompleted
  \/ RunFailed

Spec == Init /\ [][Next]_vars

(***************************************************************************)
(* Seen-Set specification: a job on which _seen_add is called with any     *)
(* sequence of checksums.                                                  *)
(***************************************************************************)
job == <<ledger, store, pc, total, skipped, result, yielded, ones, fetchRaised,
         call, ingested, ingests, inserted, failures>>

\* self._seen_add(checksum)
SeenAdd(checksum) ==
  /\ ops < MaxOps
  /\ \E r \in { _seen_add(seen, SeenCapacity, checksum) } :
       /\ seen' = r.seen
       /\ lastAdd' = [x |-> checksum, ret |-> r.ret, was |-> touch[checksum]]
  /\ ops' = ops + 1
  /\ touch' = [touch EXCEPT ![checksum] = ops + 1]
  /\ UNCHANGED <<job, connector, side>>

NextSeen == \E checksum \in Checksums : SeenAdd(checksum)

SpecSeen == Init /\ [][NextSeen]_vars

(***************************************************************************)
(* Tracker specification: a MetadataTracker whose record_metadata,         *)
(* get_latest_record and delete_previous_embeddings are called with any    *)
(* keys, checksums and versions, in any order, each inside get_db_session, *)
(* and a store that insert_documents fills.                                *)
(***************************************************************************)
\* the checksums record_metadata is called with
TrackerChecksums == {md5("old"), md5("new")}

\* where a tracker operation may raise: in the body of the with statement,
\* after its statement was executed in the session, or in db.commit()
SessionFails == {"none", "body", "commit"}

\* variant: a session in which every statement is durable as soon as it is
\* executed, so that rollback undoes nothing
get_db_session_AutoCommit(persisted, written, fail) ==
  IF fail = "none"
  THEN [persisted |-> written, raised |-> FALSE, ended |-> "commit",
        session |-> "closed"]
  ELSE [persisted |-> written, raised |-> TRUE, ended |-> "rollback",
        session |-> "closed"]

\* get_db_session: db = SessionLocal(); try: yield db; db.commit()
\* except Exception: db.rollback(); raise  finally: db.close().
\* persisted is the database before the call, written what the statements
\* of the body leave in the session.
get_db_session(persisted, written, fail) ==
  IF fail = "none"
  THEN [persisted |-> written, raised |-> FALSE, ended |-> "commit",
        session |-> "closed"]
  ELSE [persisted |-> persisted, raised |-> TRUE, ended |-> "rollback",
        session |-> "closed"]

\* the documents insert_documents is called with: one document of version 1
TrackerDocs ==
  { <<[text |-> text,
       metadata |-> standard_metadata(key, md5(text), 1, None)]>> :
      key \in Keys, text \in {"old", "new"} }

\* the record of a tracker call
Asked(op, key, row, r, before) ==
  [asked |-> op = "get_latest_record" /\ ~r.raised, op |-> op, key |-> key,
   row |-> row, raised |-> r.raised, ended |-> r.ended, session |-> r.session,
   before |-> before]

\* self.metadata_tracker.record_metadata(key, checksum, version, 1, ...)
TrackerRecord ==
  /\ BagCardinality(ledger) < MaxRows
  /\ \E key \in Keys, checksum \in TrackerChecksums, version \in 1..MaxVersion,
        fail \in SessionFails :
       \E r \in { get_db_session(
                    [ledger |-> ledger, store |-> store],
                    [ledger |-> record_metadata(ledger, key, checksum, version, 1,
                                                "2024-01-01T00:00:00",
                                                [k \in {"source_name"} |-> source_name]),
                     store |-> store],
                    fail) } :
         /\ ledger' = r.persisted.ledger
         /\ store' = r.persisted.store
         /\ query' = Asked("record_metadata", key,
                           <<[checksum |-> checksum, version |-> version]>>, r,
                           BagCardinality(ledger))
  /\ UNCHANGED <<seen, pc, total, skipped, result, yielded, ones, fetchRaised,
                 call, history, seenHistory, connector, notTracker>>

\* self.metadata_tracker.get_latest_record(key)
TrackerGetLatest ==
  /\ \E key \in Keys, fail \in SessionFails :
       \E row \in get_latest_record(ledger, key) :
         \E r \in { get_db_session([ledger |-> ledger, store |-> store],
                                   [ledger |-> ledger, store |-> store], fail) } :
           /\ ledger' = r.persisted.ledger
           /\ store' = r.persisted.store
           /\ query' = Asked("get_latest_record", key,
                             IF r.raised THEN <<>> ELSE row, r,
                             BagCardinality(ledger))
  /\ UNCHANGED <<seen, pc, total, skipped, result, yielded, ones, fetchRaised,
                 call, history, seenHistory, connector, notTracker>>

\* self.metadata_tracker.delete_previous_embeddings(key)
TrackerDelete ==
  /\ \E key \in Keys, fail \in SessionFails :
       \E r \in { get_db_session(
                    [ledger |-> ledger, store |-> store],
                    [ledger |-> ledger,
                     store |-> delete_previous_embeddings(store, key)],
                    fail) } :
         /\ ledger' = r.persisted.ledger
         /\ store' = r.persisted.store
         /\ query' = Asked("delete_previous_embeddings", key, <<>>, r,
                           BagCardinality(store))
  /\ UNCHANGED <<seen, pc, total, skipped, result, yielded, ones, fetchRaised,
                 call, history, seenHistory, connector, notTracker>>

\* self.vector_manager.insert_documents([doc])
TrackerInsert ==
  /\ BagCardinality(store) < MaxDocs
  /\ \E docs \in TrackerDocs :
       /\ store' = insert_documents(store, docs)
       /\ query' = [NoQuery EXCEPT !.op = "insert_documents",
                                   !.key = docs[1].metadata["key"],
                                   !.before = BagCardinality(store)]
  /\ UNCHANGED <<seen, ledger, pc, total, skipped, result, yielded, ones,
                 fetchRaised, call, history, seenHistory, connector, notTracker>>

NextTracker ==
  \/ TrackerRecord
  \/ TrackerGetLatest
  \/ TrackerDelete
  \/ TrackerInsert

SpecTracker == Init /\ [][NextTracker]_vars

(***************************************************************************)
(* Configuration specification: IngestionJobFactory.create and the         *)
(* constructors of the connectors, called with any configuration, and the  *)
(* run() that celery_app.run_source starts on the job it was given.        *)
(* cfg is config["config"]; a key the dict lacks has the value None.       *)
(***************************************************************************)
\* cfg.get(k, default)
get(cfg, k, default) == IF cfg[k] = None THEN default ELSE cfg[k]

\* str.rstrip("/") on the server URLs of the model
rstrip_slash(s) ==
  CASE s = "/" -> ""
    [] s = "https://jira/" -> "https://jira"
    [] OTHER -> s

\* str.lower() on the authentication types of the model
lower(s) == IF s = "Basic" THEN "basic" ELSE s

\* raise ValueError(message)
ValueError(message) == [raised |-> TRUE, error |-> message]

\* the constructor returned
Constructed == [raised |-> FALSE, error |-> ""]

\* the directories of the file system: Path.is_dir()
is_dir(path) == path \in {"/data"}

\* IngestionJob.__init__ followed by S3IngestionJob.__init__: no check
S3IngestionJob_init(cfg) == Constructed

\* DirectoryIngestionJob.__init__
DirectoryIngestionJob_init(cfg) ==
  LET directory == cfg["path"]
  IN IF directory \in {None, ""}
     THEN ValueError("path is required in directory connector config")
     ELSE IF ~is_dir(directory)
     THEN ValueError("Directory does not exist or is not a directory")
     ELSE Constructed

\* variant: the constructor without its checks of the numeric settings
MediaWikiIngestionJob_init_NoRangeChecks(cfg) ==
  IF cfg["api_url"] \in {None, ""}
  THEN ValueError("api_url is required in MediaWiki connector config")
  ELSE Constructed

\* MediaWikiIngestionJob.__init__
MediaWikiIngestionJob_init(cfg) ==
  IF cfg["api_url"] \in {None, ""}
  THEN ValueError("api_url is required in MediaWiki connector config")
  ELSE IF cfg["request_delay"] < 0
  THEN ValueError("request_delay must be non-negative")
  ELSE IF cfg["page_limit"] <= 0
  THEN ValueError("page_limit must be positive")
  ELSE IF cfg["batch_size"] <= 0
  THEN ValueError("batch_size must be positive")
  ELSE IF cfg["max_retries"] < 0
  THEN ValueError("max_retries must be non-negative")
  ELSE IF cfg["timeout"] <= 0
  THEN ValueError("timeout must be positive")
  ELSE Constructed

\* JiraIngestionJob.__init__
JiraIngestionJob_init(cfg) ==
  LET server_url == rstrip_slash(get(cfg, "server_url", ""))
      jql == strip(get(cfg, "jql", ""))
      auth_type == lower(get(cfg, "auth_type", ""))
      api_token == strip(get(cfg, "api_token", ""))
      email == strip(get(cfg, "email", ""))
  IN IF server_url = ""
     THEN ValueError("server_url is required in Jira connector config")
     ELSE IF jql = ""
     THEN ValueError("jql is required in Jira connector config")
     ELSE IF auth_type \notin {"basic", "token"}
     THEN ValueError("auth_type must be 'basic' or 'token' in Jira connector config")
     ELSE IF api_token = ""
     THEN ValueError("api_token is required in Jira connector config")
     ELSE IF auth_type = "basic" /\ email = ""
     THEN ValueError("email is required when auth_type is 'basic' in Jira connector config")
     ELSE IF cfg["max_results"] <= 0
     THEN ValueError("max_results must be positive")
     ELSE IF cfg["max_comments"] <= 0
     THEN ValueError("max_comments must be positive")
     ELSE Constructed

\* IngestionJobFactory._registry after the three register calls of factory.py
registry == {"s3", "mediawiki", "jira"}

\* IngestionJobFactory.create(job_type, config)
IngestionJobFactory_create(job_type, cfg) ==
  IF job_type \notin registry
  THEN ValueError("No ingestion job registered for type")
  ELSE CASE job_type = "s3" -> S3IngestionJob_init(cfg)
         [] job_type = "mediawiki" -> MediaWikiIngestionJob_init(cfg)
         [] job_type = "jira" -> JiraIngestionJob_init(cfg)

\* the source types of the configuration file
JobTypes == {"s3", "mediawiki", "jira", "directory", "serpapi"}

S3Configs == [buckets : {<<>>, <<"bucket">>}]

DirectoryConfigs == [path : {None, "/data", "/data/a.txt", "/nowhere"}]

MediaWikiConfigs ==
  [api_url : {None, "https://wiki/api.php"}, request_delay : {-1, 0},
   page_limit : {0, 500}, batch_size : {0, 50}, max_retries : {-1, 0, 3},
   timeout : {0, 30}]

JiraConfigs ==
  [server_url : {None, "/", "https://jira/"}, jql : {None, "   ", "project = X"},
   auth_type : {None, "Basic", "token", "oauth"}, api_token : {None, "tok"},
   email : {None, "a@b"}, max_results : {0, 50}, max_comments : {0, 10}]

\* the configurations a source of a given type may come with
ConfigsOf(job_type) ==
  CASE job_type = "mediawiki" -> MediaWikiConfigs
    [] job_type = "jira" -> JiraConfigs
    [] job_type = "directory" -> DirectoryConfigs
    [] OTHER -> S3Configs

\* the construction of a job: a new object with an empty Seen-Set, or the
\* exception leaving the constructor
Constructing(job_type, via, cfg, r) ==
  /\ pc \in {"idle", "returned"}
  /\ ctor' = [type |-> job_type, via |-> via, cfg |-> cfg,
              raised |-> r.raised, error |-> r.error]
  /\ pc' = "idle"
  /\ seen' = <<>>
  /\ total' = 0 /\ skipped' = 0 /\ result' = NoResult
  /\ yielded' = 0 /\ ones' = 0 /\ fetchRaised' = 0 /\ call' = NoCall
  /\ UNCHANGED <<db, history, seenHistory, connector, notConfig>>

\* job = IngestionJobFactory.create(pipeline_config["type"], pipeline_config)
FactoryCreate ==
  \E job_type \in JobTypes : \E cfg \in ConfigsOf(job_type) :
    Constructing(job_type, "factory", cfg, IngestionJobFactory_create(job_type, cfg))

\* DirectoryIngestionJob(config), which the factory does not register
DirectoryConstruct ==
  \E cfg \in DirectoryConfigs :
    Constructing("directory", "constructor", cfg, DirectoryIngestionJob_init(cfg))

\* return job.run(): only a job that was constructed can run
ConfigRun ==
  /\ ctor.type # "" /\ ~ctor.raised
  /\ pc = "idle"
  /\ StartRun
  /\ UNCHANGED connector

\* the run of the job returns
ConfigRunCompleted == RunCompleted

NextConfig ==
  \/ FactoryCreate
  \/ DirectoryConstruct
  \/ ConfigRun
  \/ ConfigRunCompleted

SpecConfig == Init /\ [][NextConfig]_vars

(***************************************************************************)
(* Cancellation specification: one run() during which the caller asks for  *)
(* the run to be aborted.  run() takes no argument and reads no flag,      *)
(* event or signal between two items, so the request changes nothing that  *)
(* the loop reads.                                                         *)
(***************************************************************************)
\* the run is asked to abort while it is between two items
RequestAbort ==
  /\ pc = "iterating"
  /\ ~abort
  /\ abort' = TRUE
  /\ UNCHANGED <<seen, db, pc, total, skipped, result, yielded, ones, fetchRaised,
                 call, history, seenHistory, connector, notAbort>>

\* run() of a newly constructed job
AbortRunStart == pc = "idle" /\ RunStart

NextAbort ==
  \/ AbortRunStart
  \/ RunItem
  \/ RunCompleted
  \/ RequestAbort

SpecAbort == Init /\ [][NextAbort]_vars

(***************************************************************************)
(* Concurrency specification: two job instances, started by two run_source *)
(* tasks, each processing items of its own key.  Every tracker and sink    *)
(* operation is one transaction; the instances interleave between          *)
(* operations.                                                             *)
(***************************************************************************)
\* variant: both instances working on the same key
WorkerKey_Shared(w) == <<"c">>

\* the key of the items of instance w
WorkerKey(w) == IF w = 1 THEN <<"a", "_", "b">> ELSE <<"c">>

\* the item of instance w
WorkerItem(w) == CHOOSE i \in Items : i.source_ref = WorkerKey(w)

\* the instance finished an item
Finished(wk) == [wk EXCEPT !.pos = "idle", !.done = @ + 1]

\* process_item up to the version check: get_raw_content, the emptiness
\* test and _seen_add, none of which touches the database
WorkerFetchOf(w, item) ==
  /\ workers[w].pos = "idle"
  /\ workers[w].done < MaxWorkerItems
  /\ \E content \in {"old", "new"} :
       \E added \in { _seen_add(workers[w].seen, SeenCapacity, md5(content)) },
          ref \in { process_item(
                      [seen |-> workers[w].seen,
                       ledger |-> workers[w].alone.ledger,
                       store |-> workers[w].alone.store],
                      item,
                      [content |-> content, fail |-> "none",
                       latest |-> CHOOSE l \in get_latest_record(
                                    workers[w].alone.ledger, get_item_name(item)) : TRUE,
                       extra |-> NoExtra]) } :
         LET wk == [workers[w] EXCEPT
                      !.seen = added.seen, !.content = content,
                      !.alone = [ledger |-> ref.ledger, store |-> ref.store]]
         IN workers' = [workers EXCEPT ![w] =
                          IF added.ret
                          THEN [wk EXCEPT !.pos = "get_latest_record"]
                          ELSE Finished(wk)]
  /\ UNCHANGED <<seen, db, pc, total, skipped, result, yielded, ones, fetchRaised,
                 call, history, seenHistory, connector, notWorkers>>

\* latest = self.metadata_tracker.get_latest_record(item_name) and the
\* version check
WorkerGetLatestOf(w, item) ==
  /\ workers[w].pos = "get_latest_record"
  /\ \E latest \in get_latest_record(ledger, get_item_name(item)) :
       workers' = [workers EXCEPT ![w] =
         IF is_unchanged(latest, md5(workers[w].content))
         THEN Finished([@ EXCEPT !.latest = latest])
         ELSE [@ EXCEPT !.latest = latest,
                        !.pos = IF has_previous(latest)
                                THEN "delete_previous_embeddings"
                                ELSE "insert_documents"]]
  /\ UNCHANGED <<seen, db, pc, total, skipped, result, yielded, ones, fetchRaised,
                 call, history, seenHistory, connector, notWorkers>>

\* self.metadata_tracker.delete_previous_embeddings(item_name)
WorkerDeleteOf(w, item) ==
  /\ workers[w].pos = "delete_previous_embeddings"
  /\ store' = delete_previous_embeddings(store, get_item_name(item))
  /\ workers' = [workers EXCEPT ![w].pos = "insert_documents"]
  /\ UNCHANGED <<seen, ledger, pc, total, skipped, result, yielded, ones,
                 fetchRaised, call, history, seenHistory, connector, notWorkers>>

\* self.vector_manager.insert_documents([doc])
WorkerInsertOf(w, item) ==
  /\ workers[w].pos = "insert_documents"
  /\ LET checksum == md5(workers[w].content)
         version == next_version(workers[w].latest)
         metadata == standard_metadata(get_item_name(item), checksum, version,
                                       item.last_modified)
     IN store' = insert_documents(
                   store, <<[text |-> workers[w].content,
                             metadata |-> merge_extra(metadata, NoExtra)]>>)
  /\ workers' = [workers EXCEPT ![w].pos = "record_metadata"]
  /\ UNCHANGED <<seen, ledger, pc, total, skipped, result, yielded, ones,
                 fetchRaised, call, history, seenHistory, connector, notWorkers>>

\* self.metadata_tracker.record_metadata(item_name, new_checksum, version, ...)
WorkerRecordOf(w, item) ==
  /\ workers[w].pos = "record_metadata"
  /\ ledger' = record_metadata(ledger, get_item_name(item), md5(workers[w].content),
                               next_version(workers[w].latest), 1,
                               item.last_modified,
                               [k \in {"source_name"} |-> source_name])
  /\ workers' = [workers EXCEPT ![w] = Finished(@)]
  /\ UNCHANGED <<seen, store, pc, total, skipped, result, yielded, ones,
                 fetchRaised, call, history, seenHistory, connector, notWorkers>>

\* the steps of an instance working on the items of its own key
WorkerFetch(w) == WorkerFetchOf(w, WorkerItem(w))
WorkerGetLatest(w) == WorkerGetLatestOf(w, WorkerItem(w))
WorkerDelete(w) == WorkerDeleteOf(w, WorkerItem(w))
WorkerInsert(w) == WorkerInsertOf(w, WorkerItem(w))
WorkerRecord(w) == WorkerRecordOf(w, WorkerItem(w))

NextWorkers ==
  \E w \in Workers :
    \/ WorkerFetch(w)
    \/ WorkerGetLatest(w)
    \/ WorkerDelete(w)
    \/ WorkerInsert(w)
    \/ WorkerRecord(w)

SpecWorkers == Init /\ [][NextWorkers]_vars

(***************************************************************************)
(* Shared-key specification: two job instances started by two overlapping  *)
(* run_source tasks of the same source, both processing the same item.     *)
(***************************************************************************)
\* the item both instances process
SharedItem == CHOOSE i \in Items : i.source_ref = <<"c">>

SharedFetch(w) == WorkerFetchOf(w, SharedItem)
SharedGetLatest(w) == WorkerGetLatestOf(w, SharedItem)
SharedDelete(w) == WorkerDeleteOf(w, SharedItem)
SharedInsert(w) == WorkerInsertOf(w, SharedItem)
SharedRecord(w) == WorkerRecordOf(w, SharedItem)

NextShared ==
  \E w \in Workers :
    \/ SharedFetch(w)
    \/ SharedGetLatest(w)
    \/ SharedDelete(w)
    \/ SharedInsert(w)
    \/ SharedRecord(w)

SpecShared == Init /\ [][NextShared]_vars

(***************************************************************************)
(* Connector specification: run() over the list_items generator of the S3, *)
(* Jira and MediaWiki connectors.  gen is the generator between two        *)
(* requests or yields: pos is "request" before a listing request,          *)
(* "yielding" while buffer holds references still to be yielded, "done"    *)
(* when the generator is exhausted and "raised" when an exception left it. *)
(***************************************************************************)
Connectors == {"s3", "jira", "mediawiki"}

Min(a, b) == IF a <= b THEN a ELSE b

\* the item yielded for a listed reference
ItemOf(ref) == CHOOSE i \in Items : i.source_ref = ref

\* the references still to be yielded from what the generator holds
Pending(g) ==
  Len(g.buffer) + Len(g.page_batch)
    + Len(SelectSeq(g.pages, LAMBDA title : title # <<>>))

\* ---- S3IngestionJob.list_items ----
\* self.buckets
Buckets == <<"bucket-1", "bucket-2">>

\* an object key that ends with "/"
FolderKey == <<"d", "/">>

\* what list_objects_v2 may do: raise, or return Contents, IsTruncated and
\* NextContinuationToken
S3Responses ==
  {[kind |-> "error", contents |-> <<>>, truncated |-> FALSE, next |-> None]}
  \cup
  {[kind |-> "ok", contents |-> page, truncated |-> t, next |-> n] :
     page \in {<<>>, << <<"c">> >>, <<FolderKey, <<"a", "/", "b">> >>},
     t \in BOOLEAN, n \in {None, "token-1"}}

\* for bucket in self.buckets: continuation_token = None
s3_next_bucket(g) ==
  [g EXCEPT !.bucket = @ + 1, !.token = None, !.more = FALSE, !.buffer = <<>>,
            !.pos = IF g.bucket + 1 > Len(Buckets) THEN "done" ELSE "request"]

s3_start == s3_next_bucket(NoGen)

\* params = {"Bucket": bucket, "MaxKeys": 1000}; if continuation_token:
\* params["ContinuationToken"] = continuation_token
s3_params(g) == [g EXCEPT !.sent = [NoRequest EXCEPT !.token = g.token]]

\* variant: the listing error is not caught
s3_list_failed_Raises(g) == [g EXCEPT !.pos = "raised"]

\* except Exception as e: logger.error(...); break
s3_list_failed(g) ==
  s3_next_bucket([g EXCEPT !.prev = [NoResponse EXCEPT !.bucket = g.bucket,
                                                       !.kind = "error"],
                           !.listed = <<>>, !.nth = 0])

\* variant: the while loop without its break on a response that is not
\* truncated
s3_after_page_KeepsPaging(g) == [g EXCEPT !.pos = "request"]

\* if resp.get("IsTruncated"): continuation_token = ... else: break
s3_after_page(g) ==
  IF g.more THEN [g EXCEPT !.pos = "request"] ELSE s3_next_bucket(g)

\* a response of list_objects_v2: the keys not ending with "/" are yielded
s3_listed(g, resp) ==
  LET listed == SelectSeq(resp.contents, LAMBDA key : key[Len(key)] # "/")
      g1 == [g EXCEPT !.buffer = listed, !.more = resp.truncated,
                      !.token = IF resp.truncated THEN resp.next ELSE @,
                      !.pos = "yielding",
                      !.prev = [bucket |-> g.bucket, kind |-> "ok",
                                truncated |-> resp.truncated, next |-> resp.next],
                      !.listed = resp.contents, !.nth = 0]
  IN IF listed = <<>> THEN s3_after_page(g1) ELSE g1

\* yield IngestionItem(id=f"s3://{bucket}/{obj['Key']}",
\* source_ref=(bucket, obj["Key"]), ...)
s3_yield(g) ==
  LET bucket == Buckets[g.bucket]
      key == Head(g.buffer)
  IN [g EXCEPT !.buffer = Tail(@), !.nth = @ + 1,
               !.item = [id |-> <<"s3://", bucket, "/", key>>,
                         source_ref |-> <<bucket, key>>]]

s3_after_yield(g) == IF g.buffer # <<>> THEN g ELSE s3_after_page(g)

\* ---- JiraIngestionJob.list_items ----
\* page_size = min(100, self.max_results)
page_size(g) == Min(JiraPageCap, g.max_results)

\* batch_limit = min(page_size, self.max_results - fetched)
batch_limit(g) == Min(page_size(g), g.max_results - g.fetched)

\* what search_issues may do: raise, or return a list of issues
JiraResponses ==
  {[kind |-> "error", issues |-> <<>>]}
  \cup
  {[kind |-> "ok", issues |-> page] :
     page \in {<<>>, << <<"c">> >>, << <<"c">>, <<"a", "_", "b">> >>}}

\* while fetched < self.max_results
jira_loop(g) ==
  [g EXCEPT !.buffer = <<>>,
            !.pos = IF g.fetched < g.max_results THEN "request" ELSE "done"]

\* start_at = 0; fetched = 0 of a job configured with max_results
jira_start(max_results) == jira_loop([NoGen EXCEPT !.max_results = max_results])

\* search_issues(self.jql, startAt=start_at, maxResults=batch_limit, ...)
jira_params(g) ==
  [g EXCEPT !.sent = [NoRequest EXCEPT !.start_at = g.start_at,
                                       !.max_results = batch_limit(g)]]

\* except Exception as e: logger.error(...); break
jira_search_failed(g) ==
  [g EXCEPT !.pos = "done", !.page_len = 0,
            !.prev = [NoResponse EXCEPT !.kind = "error"]]

\* a page of issues: if not issues: break; otherwise they are yielded
jira_searched(g, resp) ==
  LET g1 == [g EXCEPT !.prev = [NoResponse EXCEPT !.kind = "ok"],
                      !.page_len = Len(resp.issues),
                      !.received = @ + Len(resp.issues)]
  IN IF resp.issues = <<>> THEN [g1 EXCEPT !.pos = "done"]
     ELSE [g1 EXCEPT !.buffer = resp.issues,
                     !.more = ~(Len(resp.issues) < batch_limit(g)),
                     !.pos = "yielding"]

\* variant: a loop over the page without the check of fetched against
\* max_results
jira_after_yield_WholePage(g) ==
  LET g1 == [g EXCEPT !.fetched = @ + 1]
  IN IF g1.buffer # <<>> THEN g1
     ELSE IF ~g1.more THEN [g1 EXCEPT !.pos = "done"]
     ELSE jira_loop([g1 EXCEPT !.start_at = @ + g1.page_len])

\* fetched += 1; if fetched >= self.max_results: break; and, after the
\* page, if len(issues) < batch_limit: break; start_at += len(issues)
jira_after_yield(g) ==
  LET g1 == [g EXCEPT !.fetched = @ + 1]
  IN IF g1.buffer # <<>> /\ g1.fetched < g1.max_results THEN g1
     ELSE IF ~g1.more THEN [g1 EXCEPT !.buffer = <<>>, !.pos = "done"]
     ELSE jira_loop([g1 EXCEPT !.start_at = @ + g1.page_len])

\* ---- MediaWikiIngestionJob._make_api_request, _get_all_pages, list_items
\* what one HTTP request may do; an "ok" response carries JSON that is an
\* object with allpages and possibly continue, an empty object, or a value
\* that is no object
MwResponses ==
  {[kind |-> k, shape |-> "none", allpages |-> <<>>, continue |-> None] :
     k \in {"429", "request-error", "invalid-json"}}
  \cup
  {[kind |-> "ok", shape |-> "empty", allpages |-> <<>>, continue |-> None],
   [kind |-> "ok", shape |-> "non-object", allpages |-> <<>>, continue |-> None]}
  \cup
  {[kind |-> "ok", shape |-> "object", allpages |-> page, continue |-> c] :
     page \in {<<>>, << <<"c">> >>, << <<>>, <<"a", "_", "b">> >>},
     c \in {None, "Page_2", "Page_3"}}

\* list_items after the for loop over _get_all_pages: the remaining batch
mw_ended(g) ==
  IF g.page_batch # <<>>
  THEN [g EXCEPT !.buffer = g.page_batch, !.page_batch = <<>>,
                 !.ended = TRUE, !.pos = "yielding"]
  ELSE [g EXCEPT !.ended = TRUE, !.pos = "done"]

\* the for loops of _get_all_pages and list_items over the pages of a
\* response: titles are batched, a full batch is yielded, and after the
\* last page the next request is made if the response had "continue"
RECURSIVE mw_pages(_)
mw_pages(g) ==
  IF g.pages = <<>>
  THEN IF g.more
       THEN [g EXCEPT !.pos = "request", !.attempt = 0, !.delays = @ + 1]
       ELSE mw_ended(g)
  ELSE LET page_title == Head(g.pages)
           g1 == [g EXCEPT !.pages = Tail(@)]
           g2 == [g1 EXCEPT !.page_batch = Append(@, page_title)]
       IN IF page_title = <<>> THEN mw_pages(g1)
          ELSE IF Len(g2.page_batch) >= MwBatchSize
               THEN [g2 EXCEPT !.buffer = g2.page_batch, !.page_batch = <<>>,
                               !.pos = "yielding"]
               ELSE mw_pages(g2)

\* data = self._make_api_request(params) returned None: if not data: break
mw_request_none(g) == mw_ended([g EXCEPT !.more = FALSE])

\* _get_all_pages before its first request; _make_api_request returns None
\* without a request when max_retries <= 0
mw_start ==
  IF MwMaxRetries <= 0 THEN mw_request_none(NoGen)
  ELSE [NoGen EXCEPT !.pos = "request"]

\* _make_api_request returns None when this response ends the attempts
mw_gives_up(g, resp) ==
  \/ resp.kind = "429" /\ g.attempt + 1 >= MwMaxRetries
  \/ resp.kind = "request-error" /\ ~(g.attempt < MwMaxRetries - 1)

\* variant: a request that leaves the continue parameters out
mw_params_NoContinue(g) ==
  [g EXCEPT !.calls = @ + 1, !.sent = NoRequest]

\* params = {'action': 'query', 'list': 'allpages', ..., **continue_params}
\* of the call of _make_api_request
mw_params(g) ==
  [g EXCEPT !.calls = @ + 1, !.sent = [NoRequest EXCEPT !.token = g.token]]

\* one attempt of _make_api_request inside _get_all_pages and what follows
\* from its response; the first attempt of a call is the one that builds
\* params
mw_response(g, resp) ==
  LET g0 == IF g.attempt = 0 THEN mw_params(g) ELSE g
      g1 == [g0 EXCEPT !.prev = [NoResponse EXCEPT !.kind = resp.kind,
                                                   !.next = resp.continue]]
  IN CASE resp.kind \in {"429", "request-error"} ->
            IF mw_gives_up(g, resp) THEN mw_request_none(g1)
            ELSE [g1 EXCEPT !.attempt = @ + 1]
       [] resp.kind = "invalid-json" -> mw_request_none(g1)
       [] resp.kind = "ok" /\ resp.shape = "empty" -> mw_request_none(g1)
       [] resp.kind = "ok" /\ resp.shape = "non-object" ->
            [g1 EXCEPT !.pos = "raised"]
       [] resp.kind = "ok" /\ resp.shape = "object" ->
            mw_pages([g1 EXCEPT !.pages = resp.allpages,
                                !.listed = @ \o resp.allpages,
                                !.more = resp.continue # None,
                                !.token = resp.continue])

mw_after_yield(g) ==
  IF g.buffer # <<>> THEN g
  ELSE IF g.ended THEN [g EXCEPT !.pos = "done"]
  ELSE mw_pages(g)

\* ---- run() over the generator ----
\* a listing request and its response moved the generator from gen to g
Requested(g, failed) ==
  /\ yielded + Pending(g) <= MaxItems
  /\ gen' = [g EXCEPT !.requests = @ + 1]
  /\ enumFailed' = (enumFailed \/ failed)
  /\ UNCHANGED <<seen, job, seenHistory, side, conn>>

CanRequest(c) ==
  /\ conn = c /\ pc = "iterating"
  /\ gen.pos = "request" /\ gen.requests < MaxRequests

\* run() of a job of connector c up to the first request of list_items
ConnRunStart ==
  /\ pc = "idle"
  /\ StartRun
  /\ \E c \in Connectors, max_results \in 1..JiraMaxResults :
       /\ conn' = c
       /\ gen' = CASE c = "s3" -> s3_start
                    [] c = "jira" -> jira_start(max_results)
                    [] c = "mediawiki" -> mw_start
  /\ enumFailed' = FALSE

\* resp = self.s3_client.list_objects_v2(**params)
S3ListObjects ==
  /\ CanRequest("s3")
  /\ \E resp \in S3Responses :
       IF resp.kind = "error" THEN Requested(s3_list_failed(s3_params(gen)), TRUE)
       ELSE Requested(s3_listed(s3_params(gen), resp), FALSE)

\* issues = self._jira.search_issues(...)
JiraSearchIssues ==
  /\ CanRequest("jira")
  /\ \E resp \in JiraResponses :
       IF resp.kind = "error"
       THEN Requested(jira_search_failed(jira_params(gen)), TRUE)
       ELSE Requested(jira_searched(jira_params(gen), resp), FALSE)

\* response = self.session.get(self.api_url, ...) of the allpages query
MwApiRequest ==
  /\ CanRequest("mediawiki")
  /\ \E resp \in MwResponses :
       Requested(mw_response(gen, resp), mw_gives_up(gen, resp))

\* IngestionJob.get_extra_metadata, which no connector overrides: return {}
get_extra_metadata == NoExtra

\* item._metadata_cache["page_url"] = url of MediaWikiIngestionJob.get_raw_content
\* and item._metadata_cache["issue_url"] = permalink of JiraIngestionJob's;
\* S3IngestionJob stores no locator
cached_urls(c) ==
  IF c \in {"jira", "mediawiki"} THEN {"https://host/item"} ELSE {None}

\* the outcomes of the request get_raw_content sends: get_object of S3 and
\* the API requests of MediaWiki may fail; JiraIngestionJob.get_raw_content
\* works on the issue list_items fetched
fetch_outcomes(c) == IF c \in {"s3", "mediawiki"} THEN {"ok", "failed"} ELSE {"ok"}

\* the generator yields the next reference and the loop body of run()
\* processes it
ConnYield ==
  /\ conn \in Connectors
  /\ gen.pos = "yielding" /\ gen.buffer # <<>>
  /\ Iterate(ItemOf(Head(gen.buffer)), {"none"}, {get_extra_metadata},
             cached_urls(conn), fetch_outcomes(conn))
  /\ \E g \in { [gen EXCEPT !.buffer = Tail(@)] } :
       gen' = CASE conn = "s3" -> s3_after_yield(s3_yield(gen))
                [] conn = "jira" -> jira_after_yield(g)
                [] conn = "mediawiki" -> mw_after_yield(g)
  /\ UNCHANGED <<conn, enumFailed>>

\* the generator is exhausted
ConnCompleted == conn \in Connectors /\ gen.pos = "done" /\ RunCompleted

\* an exception left the generator
ConnFailed == conn \in Connectors /\ gen.pos = "raised" /\ RunFailed

NextConn ==
  \/ ConnRunStart
  \/ S3ListObjects
  \/ JiraSearchIssues
  \/ MwApiRequest
  \/ ConnYield
  \/ ConnCompleted
  \/ ConnFailed

SpecConn == Init /\ [][NextConn]_vars

(***************************************************************************)
(* Request specification: one call of                                      *)
(* MediaWikiIngestionJob._make_api_request over every sequence of          *)
(* responses.                                                              *)
(***************************************************************************)
\* what response.json() raises on a body that is no JSON, as the classes the
\* except clauses test: json.JSONDecodeError, a ValueError (requests before
\* 2.27), or requests.exceptions.JSONDecodeError, which is both an
\* InvalidJSONError(RequestException) and a ValueError (requests 2.27 and
\* later); the repository pins no version of requests
JSONDecodeErrors == { {"ValueError"}, {"RequestException", "ValueError"} }

\* the Retry-After header of a 429 response: absent, a number of seconds, an
\* HTTP date
RetryAfterHeaders == {None, "2", "Wed, 21 Oct 2026 07:28:00 GMT"}

\* int(response.headers.get('Retry-After', 5)), -1 when int() raises
retry_after(header) ==
  CASE header = None -> 5
    [] header = "2" -> 2
    [] OTHER -> -1

\* what one self.session.get(...) may do: raise ConnectionError or Timeout,
\* answer with a status raise_for_status() raises HTTPError for, answer 429,
\* answer 200 with a body that is no JSON, answer 200 with JSON
HttpResponses ==
  {[kind |-> k, header |-> None, data |-> None] :
     k \in {"ConnectionError", "Timeout", "HTTPError", "invalid-json"}}
  \cup
  {[kind |-> "429", header |-> h, data |-> None] : h \in RetryAfterHeaders}
  \cup
  {[kind |-> "ok", header |-> None, data |-> d] : d \in {"json-1", "json-2"}}

\* the classes of the exception the try block raises on resp; {} when none
raised_in_try(resp, json_error) ==
  CASE resp.kind \in {"ConnectionError", "Timeout", "HTTPError"} ->
         {"RequestException"}
    [] resp.kind = "429" /\ retry_after(resp.header) < 0 -> {"ValueError"}
    [] resp.kind = "invalid-json" -> json_error
    [] OTHER -> {}

\* return value of the call
http_return(h, value) == [h EXCEPT !.pos = "returned", !.ret = value]

\* the next pass of for attempt in range(max_retries); the function ends
\* without a return statement when the range is exhausted
http_continue(h, seconds) ==
  LET h1 == [h EXCEPT !.sleeps = Append(@, seconds)]
  IN IF h.attempt + 1 < h.max_retries THEN [h1 EXCEPT !.attempt = @ + 1]
     ELSE http_return(h1, None)

\* variant: an except clause that gives up at the first request error
http_except_NoRetry(h, e) == http_return(h, None)

\* except requests.exceptions.RequestException / except ValueError, in the
\* order of the source
http_except(h, e) ==
  IF "RequestException" \in e
  THEN IF h.attempt < h.max_retries - 1
       THEN [h EXCEPT !.sleeps = Append(@, 2 ^ h.attempt), !.attempt = @ + 1]
       ELSE http_return(h, None)
  ELSE http_return(h, None)

\* if max_retries <= 0: return None
_make_api_request(max_retries, json_error) ==
  LET h == [NoHttp EXCEPT !.max_retries = max_retries,
                          !.json_error = json_error]
  IN IF max_retries <= 0 THEN http_return(h, None)
     ELSE [h EXCEPT !.pos = "attempt"]

\* one pass of the for loop, the request of which got resp
http_attempt(h, resp) ==
  LET e == raised_in_try(resp, h.json_error)
      h1 == [h EXCEPT !.requests = @ + 1,
                      !.responses = Append(@, resp)]
  IN CASE e # {} -> http_except(h1, e)
       [] resp.kind = "429" -> http_continue(h1, retry_after(resp.header))
       [] OTHER -> http_return(h1, resp.data)

\* self._make_api_request(params, max_retries)
HttpCall ==
  /\ http.pos = "idle"
  /\ \E max_retries \in -1..HttpMaxRetries, json_error \in JSONDecodeErrors :
       http' = _make_api_request(max_retries, json_error)
  /\ UNCHANGED <<seen, job, seenHistory, connector, notHttp>>

\* response = self.session.get(...) and the rest of the pass
HttpAttempt ==
  /\ http.pos = "attempt"
  /\ \E resp \in HttpResponses : http' = http_attempt(http, resp)
  /\ UNCHANGED <<seen, job, seenHistory, connector, notHttp>>

NextHttp ==
  \/ HttpCall
  \/ HttpAttempt

SpecHttp == Init /\ [][NextHttp]_vars

(***************************************************************************)
(* Repeated-run specification: runs of fresh job instances                 *)
(* (celery_app.run_source creates the job of every run) over one source.   *)
(***************************************************************************)
\* the listings of a source: sequences of distinct items
Listings ==
  {<<i>> : i \in Items}
    \cup {<<p[1], p[2]>> : p \in {q \in Items \X Items : q[1] # q[2]}}

SourceContents == {"", "old", "new"}

Listed(q) == {q[n] : n \in 1..Len(q)}

\* the source a job is configured for
SourceChoose ==
  /\ runs.pos = "none"
  /\ \E items \in Listings, content \in [Items -> SourceContents] :
       /\ Len(items) <= MaxSourceItems
       /\ \A i \in Items \ Listed(items) : content[i] = ""
       /\ runs' = [NoRuns EXCEPT !.pos = "idle", !.items = items,
                                 !.content = content]
  /\ UNCHANGED <<seen, job, seenHistory, connector, notRuns>>

\* the content of a listed item changes at the source between two runs
SourceChange ==
  /\ runs.pos = "idle" /\ runs.changes < MaxChanges /\ runs.done < MaxRuns
  /\ \E i \in Listed(runs.items), content \in SourceContents \ {""} :
       /\ content # runs.content[i]
       /\ runs' = [runs EXCEPT !.content[i] = content, !.changes = @ + 1,
                                !.settled = FALSE, !.steady = FALSE,
                                !.broken = @ \ {i}]
  /\ UNCHANGED <<seen, job, seenHistory, connector, notRuns>>

\* job = IngestionJobFactory.create(...); job.run() up to the for statement
SourceRunStart ==
  /\ runs.pos = "idle" /\ runs.done < MaxRuns
  /\ seen' = <<>>
  /\ runs' = [runs EXCEPT !.pos = "running", !.nth = 1, !.clean = TRUE,
                          !.steady = runs.settled, !.report = NoReport]
  /\ UNCHANGED <<job, seenHistory, connector, notRuns>>

\* one iteration of the for loop of run() over the source: fetch is the
\* outcome of the request of get_raw_content, fail the step that raises
SourceItem ==
  /\ runs.pos = "running" /\ runs.nth <= Len(runs.items)
  /\ \E fetch \in {"ok", "failed"}, fail \in StepNames \cup {"none"} :
     LET item == runs.items[runs.nth]
         key == get_item_name(item)
     IN
     \E latest \in get_latest_record(ledger, key) :
     \E content \in { get_raw_content(fetch, runs.content[item]) } :
     \E r \in { process_item([seen |-> seen, ledger |-> ledger, store |-> store],
                             item,
                             [content |-> content, fail |-> fail,
                              latest |-> latest, extra |-> get_extra_metadata]) } :
       LET upset == r.raised \/ fetch = "failed"
           deleted == InSeq("delete_previous_embeddings", r.calls)
                        /\ fail # "delete_previous_embeddings"
       IN /\ r.raised <=> fail # "none"
          /\ ~(fail # "none" /\ fetch = "failed")
          /\ upset => runs.failures < MaxRunFailures
          /\ seen' = r.seen
          /\ ledger' = r.ledger
          /\ store' = r.store
          /\ runs' =
               [runs EXCEPT
                  !.nth = @ + 1,
                  !.failures = IF upset THEN @ + 1 ELSE @,
                  !.clean = @ /\ ~upset,
                  !.outcome[item] = r.outcome,
                  !.broken = IF deleted /\ fail = "insert_documents"
                             THEN @ \cup {item}
                             ELSE IF r.ret = 1 THEN @ \ {item} ELSE @,
                  !.report =
                    [ingested |-> @.ingested + r.ret,
                     deletes |-> @.deletes
                       + (IF InSeq("delete_previous_embeddings", r.calls)
                          THEN 1 ELSE 0),
                     inserts |-> @.inserts
                       + (IF InSeq("insert_documents", r.calls) THEN 1 ELSE 0),
                     rows |-> @.rows + BagCardinality(r.ledger)
                                - BagCardinality(ledger)]]
  /\ UNCHANGED <<pc, total, skipped, result, yielded, ones, fetchRaised, call,
                 history, seenHistory, connector, notRuns>>

\* list_items is exhausted and run() returns
SourceRunCompleted ==
  /\ runs.pos = "running" /\ runs.nth > Len(runs.items)
  /\ runs' = [runs EXCEPT !.pos = "idle", !.done = @ + 1,
                          !.settled = @ \/ runs.clean]
  /\ UNCHANGED <<seen, job, seenHistory, connector, notRuns>>

NextRuns ==
  \/ SourceChoose
  \/ SourceChange
  \/ SourceRunStart
  \/ SourceItem
  \/ SourceRunCompleted

SpecRuns == Init /\ [][NextRuns]_vars

(***************************************************************************)
(* Properties of process_item and run, stated over the last call.          *)
(***************************************************************************)
\* a process_item call has been made in this run and is the last step taken
HasCall == call.outcome # ""

CallKey == get_item_name(call.item)

\* the last call invoked step
Invoked(step) == InSeq(step, call.calls)

\* the last call invoked step and step returned
Completed(step) ==
  /\ Invoked(step)
  /\ ~(call.raised /\ call.calls[Len(call.calls)] = step)

\* step a was invoked before step b in the last call
Precedes(a, b) ==
  \E i, j \in 1..Len(call.calls) :
    i < j /\ call.calls[i] = a /\ call.calls[j] = b

\* C1: process_item returns 0 or 1 and never raises into run(): whichever
\* step raises, the call returns 0 and the loop of run() is still iterating;
\* it returns 1 only when insert_documents and record_metadata both
\* completed, leaving the document in the store and the row in the ledger.
C1_ProcessItemNeverRaises ==
  HasCall =>
    /\ call.ret \in {0, 1}
    /\ pc = "iterating" /\ result = NoResult
    /\ call.raised => call.ret = 0 /\ call.calls[Len(call.calls)] \in StepNames
    /\ call.ret = 1 =>
         /\ ~call.raised
         /\ Completed("insert_documents") /\ Completed("record_metadata")
         /\ \E d \in DocsOf(store, CallKey) :
              d.checksum_text = call.checksum /\ d.version = call.version
         /\ \E row \in RowsOf(ledger, CallKey) :
              row.checksum = call.checksum /\ row.version = call.version

\* the last step, record_metadata, raised after insert_documents completed
C1_Witness ==
  /\ HasCall /\ call.raised /\ call.ret = 0
  /\ Completed("insert_documents")
  /\ call.calls[Len(call.calls)] = "record_metadata"

\* C2: an item whose last full ingestion had the content it has now, handed
\* to process_item as the first item of a later run, returns 0 without
\* calling insert_documents, delete_previous_embeddings or record_metadata,
\* and the ledger rows of its key stay as they were.
C2_IdempotentAcrossRuns ==
  [][(yielded = 0 /\ yielded' = 1 /\ call'.rerun) =>
       /\ call'.ret = 0
       /\ ~Invoked("insert_documents")'
       /\ ~Invoked("delete_previous_embeddings")'
       /\ ~Invoked("record_metadata")'
       /\ RowsOf(ledger', CallKey') = RowsOf(ledger, CallKey')]_vars

\* C3: the versions of a key in the ledger are 1, 2, ..., n without gap or
\* repetition, n being the number of calls that ingested a change of the
\* key; a call that ingests with version above 1 computed it from the
\* latest row, and, when no step has ever raised, an insert for a key that
\* already had an insert comes after a delete for the key in the same call.
C3_VersionMonotonic ==
  /\ \A k \in Keys :
       LET rows == RowsOf(ledger, k)
       IN /\ {r.version : r \in rows} = 1..Cardinality(rows)
          /\ \A r \in rows : ledger[r] = 1
          /\ ingests[k] = Cardinality(rows)
  /\ (HasCall /\ call.ret = 1) => call.version = ingests[CallKey]
  /\ (HasCall /\ failures = 0 /\ Invoked("insert_documents")) =>
       /\ call.first <=> call.version = 1
       /\ ~call.first =>
            Precedes("delete_previous_embeddings", "insert_documents")

\* a key changed three times over completed calls: version 3, after a delete
C3_Witness ==
  /\ HasCall /\ failures = 0 /\ call.ret = 1
  /\ call.version = 3 /\ ingests[CallKey] = 3
  /\ Precedes("delete_previous_embeddings", "insert_documents")

\* C4: for each key the store holds exactly the content of the latest
\* ledger row of the key (one document, same checksum and version), and
\* nothing for a key without ledger row.
C4_LedgerStoreAgree ==
  \A k \in Keys :
    LET rows == RowsOf(ledger, k)
        docs == DocsOf(store, k)
    IN IF rows = {} THEN docs = {}
       ELSE \E l \in get_latest_record(ledger, k) :
              /\ Cardinality(docs) = 1
              /\ \A d \in docs :
                   /\ store[d] = 1
                   /\ d.checksum_text = l[1].checksum
                   /\ d.version = l[1].version

\* C5: while list_items does not raise, every listed item is processed once
\* and counted once: ingested + skipped is the number of items listed and
\* ingested is the number of calls that returned 1; a call whose
\* get_raw_content raised returned 0, was counted as skipped, and left the
\* loop iterating for the items after it.
C5_PartialFailureAccounting ==
  /\ pc = "iterating" =>
       /\ total + skipped = yielded
       /\ total = ones
       /\ skipped >= fetchRaised
  /\ (pc = "returned" /\ result.kind = "Completed") =>
       /\ result.ingested + result.skipped = yielded
       /\ result.ingested = ones
       /\ result.skipped >= fetchRaised
  /\ (HasCall /\ call.raised /\ call.calls = <<"get_raw_content">>) =>
       call.ret = 0 /\ skipped >= 1 /\ pc = "iterating"

\* the first item's get_raw_content raised and the second item was ingested
C5_Witness ==
  /\ pc = "iterating" /\ yielded = 2 /\ fetchRaised = 1
  /\ HasCall /\ call.ret = 1
  /\ total = 1 /\ skipped = 1

\* C6: when list_items raises after k items, run() has returned (it did not
\* raise, and no further item is processed in that run) a "Job failed"
\* summary whose partial totals satisfy ingested + skipped = k.
C6_RunLevelFatal ==
  (pc = "returned" /\ result.kind = "Job failed") =>
    /\ result.ingested + result.skipped = yielded
    /\ result.ingested = ones
    /\ result.ingested = total /\ result.skipped = skipped
    /\ ~ENABLED RunItem /\ ~ENABLED RunItemRaises

\* list_items raised after one item had been ingested and one skipped
C6_Witness ==
  /\ pc = "returned" /\ result.kind = "Job failed"
  /\ yielded = 2 /\ result.ingested = 1 /\ result.skipped = 1

C8_ReservedKeyProtection ==
  (HasCall /\ Completed("get_extra_metadata")) =>
    /\ Len(call.docs) = 1
    /\ ~call.raised => call.ret = 1
    /\ \A i \in 1..Len(call.docs) :
         LET metadata == call.docs[i].metadata
             built == standard_metadata(CallKey, call.checksum, call.version,
                                        call.item.last_modified)
         IN /\ DOMAIN metadata =
                 RESERVED_METADATA_KEYS \cup DOMAIN call.extra
            /\ \A K \in RESERVED_METADATA_KEYS :
                 /\ metadata[K] = built[K]
                 /\ K \in DOMAIN call.extra => metadata[K] # call.extra[K]
            /\ \A k \in DOMAIN call.extra \ RESERVED_METADATA_KEYS :
                 metadata[k] = call.extra[k]

\* get_extra_metadata returned every reserved key and "url"; the item was
\* ingested
C8_Witness ==
  /\ HasCall /\ call.ret = 1 /\ Len(call.docs) = 1
  /\ RESERVED_METADATA_KEYS \subseteq DOMAIN call.extra
  /\ "url" \in DOMAIN call.extra

\* the checksums _seen holds
Held(q) == {q[i] : i \in 1..Len(q)}

\* the held checksum whose last touch (insert or re-add) is the oldest
LeastRecentlyTouched(held) ==
  CHOOSE c \in held : \A d \in held : touch[c] <= touch[d]

\* C9: every _seen_add(x) returns False exactly when x was held, leaves at
\* most SeenCapacity checksums held, x among them, and, when x was not held
\* and the set was full, removes the least recently touched checksum and
\* nothing else; otherwise nothing is removed.
C9_SeenSetLRU ==
  [][ops' = ops + 1 =>
       LET x == lastAdd'.x
           held == Held(seen)
       IN /\ lastAdd'.ret = (x \notin held)
          /\ Len(seen') <= SeenCapacity
          /\ Cardinality(Held(seen')) = Len(seen')
          /\ Held(seen') =
               IF x \in held \/ Cardinality(held) < SeenCapacity
               THEN held \cup {x}
               ELSE (held \ {LeastRecentlyTouched(held)}) \cup {x}
          /\ \A c \in Held(seen') \ {x} :
               \A d \in held \ Held(seen') : touch[d] < touch[c]]_vars

\* a checksum that had been added and evicted is added again to a full set
\* and reported as new
C9_Witness ==
  /\ lastAdd.ret /\ lastAdd.was > 0
  /\ Len(seen) = SeenCapacity
  /\ lastAdd.x = seen[Len(seen)]

\* C10: a call in which get_latest_record returned a row whose checksum is
\* the checksum of the fetched content returns 0 after that one
\* get_latest_record call, invoking no delete_previous_embeddings,
\* insert_documents or record_metadata, and leaves ledger and store as they
\* were.
C10_SkippedUnchangedFrame ==
  [][(/\ yielded' = yielded + 1
      /\ Completed("get_latest_record")'
      /\ \E l \in get_latest_record(ledger, CallKey') :
           l # <<>> /\ l[1].checksum = call'.checksum) =>
       /\ call'.ret = 0 /\ ~call'.raised
       /\ call'.calls = <<"get_raw_content", "get_item_name", "get_latest_record">>
       /\ ledger' = ledger
       /\ store' = store]_vars

\* the last call was skipped as unchanged
C10_Witness ==
  /\ HasCall /\ call.outcome = "skipped-unchanged"
  /\ \E l \in get_latest_record(ledger, CallKey) :
       l # <<>> /\ l[1].checksum = call.checksum

\* the number of times the last call invoked step
Invocations(step) ==
  Cardinality({i \in 1..Len(call.calls) : call.calls[i] = step})

\* C11: in a call in which get_latest_record returned, and the content is
\* not the one of the latest row, delete_previous_embeddings is invoked
\* exactly when a row of the key existed, once and before insert_documents;
\* insert_documents, when reached, receives one document whose metadata
\* version is the previous version + 1 (1 without previous row); and
\* record_metadata is invoked at most once, only after insert_documents
\* returned, and appends the row (key, new checksum, that version).  When no
\* step raises all of this happens and the call returns 1.
C11_UpdateOrdering ==
  [][(yielded' = yielded + 1 /\ Completed("get_latest_record")') =>
       \A l \in get_latest_record(ledger, CallKey') :
         LET previous == IF l = <<>> THEN 0 ELSE l[1].version
             changed == l = <<>> \/ l[1].checksum # call'.checksum
         IN /\ Invocations("delete_previous_embeddings")' =
                 (IF l # <<>> /\ changed THEN 1 ELSE 0)
            /\ Invocations("insert_documents")' <= 1
            /\ Invocations("record_metadata")' <= 1
            /\ Invoked("insert_documents")' =>
                 /\ changed
                 /\ l # <<>> =>
                      Precedes("delete_previous_embeddings", "insert_documents")'
                 /\ Len(call'.docs) = 1
                 /\ call'.docs[1].metadata["version"] = previous + 1
            /\ Invoked("record_metadata")' =>
                 /\ Completed("insert_documents")'
                 /\ Precedes("insert_documents", "record_metadata")'
            /\ Completed("record_metadata")' =>
                 ledger' = ledger (+) SetToBag({
                   [key |-> CallKey', checksum |-> call'.checksum,
                    version |-> previous + 1,
                    metadata_content |->
                      [k \in {"chunks", "source", "source_name"} |->
                         CASE k = "chunks" -> 1
                           [] k = "source" -> "generic"
                           [] k = "source_name" -> source_name],
                    last_modified |-> call'.item.last_modified]})
            /\ (changed /\ ~call'.raised) =>
                 call'.ret = 1 /\ Completed("record_metadata")']_vars

\* an update: a row of the key existed, the content differs, and the call
\* deleted, inserted and recorded version 2
C11_Witness ==
  /\ HasCall /\ call.ret = 1 /\ call.version = 2
  /\ call.calls = <<"get_raw_content", "get_item_name", "get_latest_record",
                    "delete_previous_embeddings", "get_extra_metadata",
                    "insert_documents", "record_metadata">>

\* C12: when insert_documents raises, process_item returns 0 without
\* invoking record_metadata, and the ledger is as it was before the call.
C12_SinkFailureNoVersion ==
  [][(/\ yielded' = yielded + 1
      /\ Invoked("insert_documents")' /\ ~Completed("insert_documents")') =>
       /\ call'.ret = 0
       /\ ~Invoked("record_metadata")'
       /\ ledger' = ledger
       /\ get_latest_record(ledger', CallKey') = get_latest_record(ledger, CallKey')]_vars

\* insert_documents raised in the update of a key that has a row
C12_Witness ==
  /\ HasCall /\ call.raised /\ call.ret = 0
  /\ call.calls[Len(call.calls)] = "insert_documents"
  /\ Invoked("delete_previous_embeddings")
  /\ RowsOf(ledger, CallKey) # {}

\* the contents that are empty or hold white space only
Blank == {"", "   "}

\* C13: when get_raw_content returns an empty or whitespace-only string,
\* process_item returns 0 having called no other step (no get_item_name, no
\* get_latest_record, no delete, no insert_documents, no record_metadata),
\* and the Seen-Set, the ledger and the store are as they were.
C13_SkippedEmptyFrame ==
  [][(/\ yielded' = yielded + 1
      /\ Completed("get_raw_content")' /\ call'.content \in Blank) =>
       /\ call'.ret = 0 /\ ~call'.raised
       /\ call'.calls = <<"get_raw_content">>
       /\ call'.docs = <<>>
       /\ seen' = seen
       /\ ledger' = ledger
       /\ store' = store
       /\ skipped' = skipped + 1 /\ total' = total]_vars

\* a whitespace-only content was skipped by a job whose Seen-Set and ledger
\* are not empty
C13_Witness ==
  /\ HasCall /\ call.outcome = "skipped-empty" /\ call.content = "   "
  /\ seen # <<>> /\ RowsOf(ledger, CallKey) # {}

\* C14: an item whose content checksum is in the Seen-Set is skipped:
\* process_item returns 0 having called neither get_latest_record nor
\* insert_documents nor record_metadata, whatever the item's key, and the
\* ledger and the store are as they were.  An item whose checksum is not in
\* the Seen-Set has it inserted, the least recently used checksum leaving
\* when the capacity is exceeded, before get_item_name and get_latest_record
\* are called: the checksum is held afterwards even when one of them raises.
C14_RunLocalDedup ==
  [][(/\ yielded' = yielded + 1
      /\ Completed("get_raw_content")' /\ call'.content \notin Blank) =>
       LET cs == md5(call'.content)
       IN IF cs \in Held(seen)
          THEN /\ call'.ret = 0 /\ ~call'.raised
               /\ call'.calls = <<"get_raw_content">>
               /\ Held(seen') = Held(seen)
               /\ ledger' = ledger
               /\ store' = store
          ELSE /\ cs \in Held(seen')
               /\ seen'[Len(seen')] = cs
               /\ Len(seen') <= SeenCapacity
               /\ Held(seen') \subseteq Held(seen) \cup {cs}
               /\ Len(seen) < SeenCapacity => Held(seen) \subseteq Held(seen')
               /\ Len(seen) = SeenCapacity =>
                    Held(seen') = (Held(seen) \ {seen[1]}) \cup {cs}
               /\ call'.calls # <<"get_raw_content">>]_vars

\* an item was skipped as a duplicate although its key has no ledger row:
\* its content had been seen under another key
C14_Witness ==
  /\ HasCall /\ call.outcome = "skipped-duplicate" /\ call.ret = 0
  /\ RowsOf(ledger, CallKey) = {}
  /\ call.checksum \in Held(seen)

\* a full Seen-Set took a new checksum and get_latest_record raised afterwards
C14_WitnessEviction ==
  /\ HasCall /\ call.raised
  /\ call.calls[Len(call.calls)] = "get_latest_record"
  /\ Len(seen) = SeenCapacity /\ seen[Len(seen)] = call.checksum

\* process_item on the state before the last call with the run-local dedup
\* step left out: the same item, content, raising step and extra metadata,
\* and a Seen-Set that holds nothing
WithoutDedup ==
  LET key == get_item_name(call'.item)
      latest == CHOOSE l \in get_latest_record(ledger, key) : TRUE
  IN process_item([seen |-> <<>>, ledger |-> ledger, store |-> store],
                  call'.item,
                  [content |-> call'.content,
                   fail |-> IF call'.raised THEN call'.calls[Len(call'.calls)]
                            ELSE "none",
                   latest |-> latest, extra |-> call'.extra])

\* C15: the Seen-Set is advisory: every process_item call of a run leaves the
\* ledger rows and the indexed documents that the same call would leave with
\* the dedup step removed and only the version check deciding, so the ledger
\* and the store after the run are those of the run without dedup and no item
\* is left un-indexed only because of the Seen-Set.
C15_SeenSetAdvisory ==
  [][yielded' = yielded + 1 =>
       /\ ledger' = WithoutDedup.ledger
       /\ store' = WithoutDedup.store
       /\ call'.ret = WithoutDedup.ret]_vars

\* an item with no ledger row and no document was skipped as a duplicate and
\* is still without row and document, while the call without dedup ingests it
C15_LeftUnindexed ==
  /\ HasCall /\ call.outcome = "skipped-duplicate"
  /\ RowsOf(ledger, CallKey) = {} /\ DocsOf(store, CallKey) = {}

\* C16: the Seen-Set is scoped to one run: at the start of every run() of a
\* job, before list_items has yielded anything, the Seen-Set holds no
\* checksum, those added by an earlier run() of the job included.
C16_SeenSetScopedToRun ==
  (pc = "iterating" /\ yielded = 0) => seen = <<>>

\* C17: get_item_name is injective: two different items never have the same
\* ledger key, so no two different items are ingested under one key.
C17_ItemNameInjective ==
  \A i, j \in Items :
    (ingested[i] # None /\ ingested[j] # None
       /\ get_item_name(i) = get_item_name(j)) => i = j

\* C18: every document handed to insert_documents carries the eight reserved
\* metadata keys, with source the job's source_type, key and file_name the
\* get_item_name of the item, checksum the MD5 of the document text, and
\* version the version of the ledger row record_metadata appends in the same
\* call under that key and checksum.
C18_DocumentMetadata ==
  [][(yielded' = yielded + 1 /\ Invoked("insert_documents")') =>
       /\ Len(call'.docs) = 1
       /\ \A i \in 1..Len(call'.docs) :
            LET text == call'.docs[i].text
                md == call'.docs[i].metadata
            IN /\ RESERVED_METADATA_KEYS \subseteq DOMAIN md
               /\ md["source"] = source_type
               /\ md["key"] = CallKey' /\ md["file_name"] = CallKey'
               /\ md["checksum"] = md5(text)
               /\ md["version"] \in Nat \ {0}
               /\ Completed("record_metadata")' =>
                    \E row \in BagToSet(ledger') :
                      /\ CopiesIn(row, ledger') = CopiesIn(row, ledger) + 1
                      /\ ledger' = ledger (+) SetToBag({row})
                      /\ row.key = md["key"]
                      /\ row.checksum = md["checksum"]
                      /\ row.version = md["version"]]_vars

\* the document of an update, built by a job whose get_extra_metadata
\* returned entries under the reserved keys
C18_Witness ==
  /\ HasCall /\ call.ret = 1 /\ call.version = 2
  /\ call.extra # NoExtra
  /\ Len(call.docs) = 1
  /\ call.docs[1].metadata["version"] = 2

\* C19: when get_raw_content stored a URL in the item's metadata cache, the
\* document handed to insert_documents for the item has the metadata entry
\* url with that URL.
C19_UrlPropagation ==
  (HasCall /\ call.cached_url # None /\ Invoked("insert_documents")) =>
    \A i \in 1..Len(call.docs) :
      LET md == call.docs[i].metadata
      IN "url" \in DOMAIN md /\ md["url"] = call.cached_url

\* C20: get_latest_record(key) returns absent exactly when the ledger has no
\* row of the key, and otherwise the checksum and the version of a row of
\* the key whose version no other row of the key exceeds, whatever rows
\* other keys have.
C20_GetLatestRecord ==
  query.asked =>
    LET rows == {r \in BagToSet(ledger) : r.key = query.key}
    IN /\ query.row = <<>> <=> rows = {}
       /\ rows # {} =>
            \E r \in rows :
              /\ r.checksum = query.row[1].checksum
              /\ r.version = query.row[1].version
              /\ \A o \in rows : o.version <= r.version

\* the key asked for has rows of versions 1 and 2, another key has a row of
\* version 3, and version 2 was returned
C20_Witness ==
  /\ query.asked /\ query.row # <<>>
  /\ {r.version : r \in RowsOf(ledger, query.key)} = {1, 2}
  /\ \E o \in BagToSet(ledger) : o.key # query.key /\ o.version = 3
  /\ \E r \in RowsOf(ledger, query.key) :
       r.version = 1 /\ r.checksum # query.row[1].checksum

\* get_latest_record returned absent for a key although another key has rows
C20_WitnessAbsent ==
  /\ query.asked /\ query.row = <<>>
  /\ ledger # EmptyBag

\* C21: the ledger is append-only: a record_metadata call that returns adds
\* exactly one row, with the key, checksum and version it was given, and
\* leaves every other row as it was; no other tracker or sink operation,
\* delete_previous_embeddings included, and no call that raises, changes
\* the ledger.  The rows of the ledger only grow.
C21_LedgerAppendOnly ==
  [][/\ \A r \in BagToSet(ledger) : CopiesIn(r, ledger') >= CopiesIn(r, ledger)
     /\ IF query'.op = "record_metadata" /\ ~query'.raised
        THEN \E row \in BagToSet(ledger') :
               /\ ledger' = ledger (+) SetToBag({row})
               /\ row.key = query'.key
               /\ row.checksum = query'.row[1].checksum
               /\ row.version = query'.row[1].version
        ELSE ledger' = ledger]_vars

\* delete_previous_embeddings removed the documents of a key that has
\* ledger rows, and the rows are still there
C21_Witness ==
  /\ query.op = "delete_previous_embeddings" /\ ~query.raised
  /\ BagCardinality(store) < query.before
  /\ Cardinality(RowsOf(ledger, query.key)) = 2

\* C22: delete_previous_embeddings(key) removes every indexed document whose
\* metadata key is the given key and nothing else: the documents of every
\* other key keep their copies, the ledger is unchanged, and when nothing is
\* indexed for the key the store is unchanged.
C22_DeletePreviousEmbeddings ==
  [][(query'.op = "delete_previous_embeddings" /\ ~query'.raised) =>
       /\ \A d \in BagToSet(store) \cup BagToSet(store') :
            CopiesIn(d, store') =
              (IF d.key_text = query'.key THEN 0 ELSE CopiesIn(d, store))
       /\ ledger' = ledger
       /\ DocsOf(store, query'.key) = {} => store' = store]_vars

\* a delete removed the documents of its key and left those of another key
C22_Witness ==
  /\ query.op = "delete_previous_embeddings" /\ ~query.raised
  /\ BagCardinality(store) = 1 /\ query.before = 2
  /\ DocsOf(store, query.key) = {}

\* a delete for a key with nothing indexed, in a store that holds documents
C22_WitnessNoOp ==
  /\ query.op = "delete_previous_embeddings" /\ ~query.raised
  /\ BagCardinality(store) = 2 /\ query.before = 2

\* the operations of MetadataTracker
TrackerOps == {"get_latest_record", "record_metadata", "delete_previous_embeddings"}

\* C23: each tracker operation is atomic: a call whose body completes is
\* committed, a call that raises (in its body or in the commit) is rolled
\* back and leaves the ledger and the store as they were before the call,
\* and the session is closed in both cases.
C23_TrackerAtomic ==
  [][query'.op \in TrackerOps =>
       /\ query'.session = "closed"
       /\ IF query'.raised
          THEN /\ query'.ended = "rollback"
               /\ ledger' = ledger
               /\ store' = store
          ELSE /\ query'.ended = "commit"
               /\ query'.op = "record_metadata" =>
                    BagCardinality(ledger') = BagCardinality(ledger) + 1
               /\ query'.op = "delete_previous_embeddings" =>
                    DocsOf(store', query'.key) = {}
               /\ query'.op = "get_latest_record" =>
                    ledger' = ledger /\ store' = store]_vars

\* a record_metadata call on a ledger with rows raised and was rolled back
C23_Witness ==
  /\ query.op = "record_metadata" /\ query.raised
  /\ query.ended = "rollback" /\ query.session = "closed"
  /\ query.before > 0 /\ BagCardinality(ledger) = query.before

\* a delete_previous_embeddings call for a key with documents raised
C23_WitnessDelete ==
  /\ query.op = "delete_previous_embeddings" /\ query.raised
  /\ DocsOf(store, query.key) # {}

\* a value the configuration lacks or leaves blank
Absent(v) == v \in {None, "", "   "}

\* the configurations the connectors must refuse
InvalidConfig ==
  \/ ctor.via = "factory" /\ ctor.type \notin {"s3", "mediawiki", "jira"}
  \/ /\ ctor.via = "constructor" /\ ctor.type = "directory"
     /\ ctor.cfg.path \notin {"/data"}
  \/ /\ ctor.via = "factory" /\ ctor.type = "mediawiki"
     /\ \/ Absent(ctor.cfg.api_url)
        \/ ctor.cfg.request_delay < 0 \/ ctor.cfg.page_limit < 1
        \/ ctor.cfg.batch_size < 1 \/ ctor.cfg.max_retries < 0
        \/ ctor.cfg.timeout < 1
  \/ /\ ctor.via = "factory" /\ ctor.type = "jira"
     /\ \/ Absent(ctor.cfg.server_url) \/ Absent(ctor.cfg.jql)
        \/ ctor.cfg.auth_type \notin {"basic", "Basic", "token"}
        \/ Absent(ctor.cfg.api_token)
        \/ ctor.cfg.auth_type \in {"basic", "Basic"} /\ Absent(ctor.cfg.email)
        \/ ctor.cfg.max_results < 1 \/ ctor.cfg.max_comments < 1

\* C24: configuration errors are raised eagerly: the construction of a job
\* with a type the factory does not know, a directory path that is missing
\* or no directory, a MediaWiki api_url that is missing or a numeric setting
\* out of range, or a Jira server_url, jql, auth_type, api_token or (for
\* basic authentication) email that is missing or a max_results or
\* max_comments that is not positive, raises out of the constructor; no
\* run() starts, so neither list_items nor process_item is called.
C24_EagerConfigErrors ==
  (ctor.type # "" /\ InvalidConfig) =>
    /\ ctor.raised /\ ctor.error # ""
    /\ pc = "idle" /\ result = NoResult
    /\ yielded = 0 /\ call = NoCall /\ gen = NoGen
    /\ ~ENABLED ConfigRun

\* after a run of a valid job, a Jira job whose only fault is max_comments
\* was refused
C24_Witness ==
  /\ ctor.type = "jira" /\ ctor.raised
  /\ ctor.error = "max_comments must be positive"
  /\ ctor.cfg.max_results = 50

\* a MediaWiki job with max_retries 0 was constructed and runs
C24_WitnessValid ==
  /\ ctor.type = "mediawiki" /\ ~ctor.raised /\ ctor.cfg.max_retries = 0
  /\ pc = "iterating"

\* C25: run() checks for an abort request after each process_item call: once
\* the run has been asked to abort, no further item is fetched from
\* list_items and processed, and the effects of the items already processed
\* stay.
C25_CancellationBetweenItems ==
  [][abort => /\ yielded' = yielded
              /\ ledger' = ledger /\ store' = store]_vars

\* C26: job instances working on different keys do not interfere: whenever
\* an instance is between two items, under every interleaving of the
\* tracker and sink operations of the instances, the ledger rows and the
\* indexed documents of its key are those its items produce when no other
\* instance runs.
C26_DisjointKeysNoInterference ==
  \A w \in Workers :
    workers[w].pos = "idle" =>
      /\ \A r \in BagToSet(ledger) \cup BagToSet(workers[w].alone.ledger) :
           r.key = WorkerKey(w) =>
             CopiesIn(r, ledger) = CopiesIn(r, workers[w].alone.ledger)
      /\ \A d \in BagToSet(store) \cup BagToSet(workers[w].alone.store) :
           d.key_text = WorkerKey(w) =>
             CopiesIn(d, store) = CopiesIn(d, workers[w].alone.store)

\* both instances updated their key, and the first finished its update
\* while the second was between its delete and its insert
C26_Witness ==
  /\ workers[1].pos = "idle" /\ workers[1].done = 2
  /\ workers[2].pos = "insert_documents" /\ workers[2].done = 1
  /\ \E r \in RowsOf(ledger, WorkerKey(1)) : r.version = 2
  /\ DocsOf(store, WorkerKey(2)) = {}

\* C27: a fetch failure of a connector is a skip: when the request of
\* get_raw_content fails, get_raw_content returns the empty string and does
\* not raise, the item is counted as skipped, no URL is kept for it, nothing
\* is written, and run() goes on iterating list_items.
C27_FetchFailureIsSkip ==
  [][(yielded' = yielded + 1 /\ call'.fetch = "failed") =>
       /\ call'.content = "" /\ ~call'.raised
       /\ call'.calls = <<"get_raw_content">>
       /\ call'.outcome = "skipped-empty" /\ call'.ret = 0
       /\ skipped' = skipped + 1 /\ total' = total
       /\ call'.cached_url = None
       /\ ledger' = ledger /\ store' = store
       /\ pc' = "iterating" /\ result' = NoResult
       /\ gen'.pos # "raised"]_vars

\* the first page of a MediaWiki run was ingested, the fetch of the second
\* failed, and the run is still iterating
C27_Witness ==
  /\ conn = "mediawiki" /\ HasCall /\ call.fetch = "failed"
  /\ yielded = 2 /\ skipped = 1 /\ total = 1
  /\ pc = "iterating"

\* the listed objects whose key does not end with "/"
Objects(listed) == SelectSeq(listed, LAMBDA key : key[Len(key)] # "/")

\* C28: S3 list_items goes through the buckets in order and through the
\* pages of a bucket in listing order; every yield gives the next listed
\* object whose key does not end with "/", as an item with id
\* s3://bucket/key and source_ref (bucket, key), and every such object of a
\* page has been yielded before the next request is sent or the generator
\* ends; the first request of a bucket carries no ContinuationToken, a later
\* one the NextContinuationToken of the previous response, which was
\* truncated: after a response that is not truncated the bucket gets no
\* further request.
C28_S3Listing ==
  [][conn = "s3" =>
       /\ gen'.bucket \in {gen.bucket, gen.bucket + 1}
       /\ gen'.pos \in {"request", "done"} =>
            gen'.nth = Len(Objects(gen'.listed))
       /\ gen'.requests = gen.requests + 1 =>
            /\ gen.nth = Len(Objects(gen.listed))
            /\ gen.bucket \in 1..Len(Buckets)
            /\ IF gen.prev.bucket # gen.bucket
               THEN gen'.sent.token = None
               ELSE /\ gen.prev.kind = "ok" /\ gen.prev.truncated
                    /\ gen'.sent.token = gen.prev.next
       /\ yielded' = yielded + 1 =>
            LET key == Objects(gen.listed)[gen.nth + 1]
            IN /\ gen'.item.id = <<"s3://", Buckets[gen.bucket], "/", key>>
               /\ gen'.item.source_ref = <<Buckets[gen.bucket], key>>
               /\ call'.item.source_ref = key
               /\ gen'.nth = gen.nth + 1]_vars

\* the second page of the first bucket, requested with the token of the
\* truncated first page, listed a folder key and an object, and the object
\* was yielded
C28_Witness ==
  /\ conn = "s3" /\ gen.requests = 2 /\ gen.sent.token = "token-1"
  /\ gen.listed = <<FolderKey, <<"a", "/", "b">> >>
  /\ gen.item.id = <<"s3://", "bucket-1", "/", <<"a", "/", "b">> >>
  /\ yielded = 2

\* C29: Jira list_items never yields more than max_results items, whatever
\* the length of the pages the server returns; every search request has
\* startAt equal to the number of issues received in the earlier pages and
\* maxResults equal to the smaller of the page cap and max_results minus the
\* items yielded so far; a request follows a page only if that page was not
\* empty, not shorter than requested, left max_results unreached and was no
\* error; reaching max_results ends the enumeration at once; and a search
\* error ends the enumeration without raising out of list_items.
C29_JiraListing ==
  [][conn = "jira" =>
       /\ yielded' <= gen'.max_results
       /\ gen'.pos # "raised"
       /\ gen'.requests = gen.requests + 1 =>
            /\ gen'.sent.start_at = gen.received
            /\ gen'.sent.max_results =
                 Min(JiraPageCap, gen.max_results - yielded)
            /\ gen.buffer = <<>>
            /\ yielded < gen.max_results
            /\ gen.requests > 0 =>
                 /\ gen.prev.kind = "ok"
                 /\ gen.page_len > 0
                 /\ ~(gen.page_len < gen.sent.max_results)
            /\ gen'.prev.kind = "error" => gen'.pos = "done"
            /\ gen'.page_len = 0 => gen'.pos = "done"
       /\ (yielded' = yielded + 1 /\ gen'.buffer = <<>>
             /\ gen.page_len < gen.sent.max_results) => gen'.pos = "done"
       /\ (yielded' = yielded + 1 /\ yielded' >= gen.max_results) =>
            gen'.pos = "done"]_vars

\* a second request was sent with startAt 2 after a full page of 2 issues
C29_Witness ==
  /\ conn = "jira" /\ gen.max_results = 3 /\ gen.requests = 2
  /\ gen.sent.start_at = 2 /\ gen.sent.max_results = 1 /\ yielded = 2
  /\ gen.prev.kind = "error" /\ gen.pos = "done" /\ pc = "returned"

\* a page of 2 issues answered a request for 1 and only 1 was yielded
C29_WitnessOversize ==
  /\ conn = "jira" /\ gen.max_results = 1 /\ gen.page_len = 2
  /\ gen.sent.max_results = 1 /\ yielded = 1 /\ gen.pos = "done"

\* a page shorter than requested ended the enumeration
C29_WitnessShort ==
  /\ conn = "jira" /\ gen.max_results = 2 /\ gen.page_len = 1
  /\ gen.sent.max_results = 2 /\ yielded = 1 /\ gen.pos = "done"

\* the responses of the call under way that are of one of the kinds
Got(kinds) == {i \in 1..Len(http.responses) : http.responses[i].kind \in kinds}

RequestErrors == {"ConnectionError", "Timeout", "HTTPError"}

\* the clauses of C30 other than the one on invalid JSON: the call sends at
\* most max_retries requests, one per pass of a loop of at most max_retries
\* passes; a successful response is the last one and its JSON is returned;
\* when every attempt failed with a request error, max_retries requests
\* were sent and None is returned; with max_retries <= 0 no request is sent
\* and None is returned.
C30_BoundedRetries ==
  /\ http.requests = Len(http.responses)
  /\ http.requests <= Max({0, http.max_retries})
  /\ http.pos = "attempt" =>
       http.attempt = http.requests /\ http.attempt < http.max_retries
  /\ \A i \in Got({"ok"}) :
       /\ i = Len(http.responses) /\ http.pos = "returned"
       /\ http.ret = http.responses[i].data
  /\ (http.pos = "returned" /\ http.requests > 0
        /\ Got(RequestErrors) = 1..Len(http.responses)) =>
       http.ret = None /\ http.requests = http.max_retries
  /\ (http.pos # "idle" /\ http.max_retries <= 0) =>
       http.pos = "returned" /\ http.requests = 0 /\ http.ret = None

\* C30 as stated: _make_api_request sends at most max_retries requests for
\* any sequence of responses and terminates, returns the JSON of the first
\* successful response, returns None when every attempt failed with a
\* request error, sends no request when max_retries is 0, and returns None
\* at once, without another request, on a response whose body is no JSON.
C30_MakeApiRequest ==
  /\ C30_BoundedRetries
  /\ \A i \in Got({"invalid-json"}) :
       /\ i = Len(http.responses) /\ http.pos = "returned"
       /\ http.ret = None

\* a response whose body was no JSON was followed by a sleep and a second
\* request
C30_InvalidJsonRetried ==
  /\ http.max_retries = 2 /\ http.requests = 2
  /\ http.responses[1].kind = "invalid-json" /\ http.sleeps = <<1>>
  /\ http.responses[2].kind = "ok" /\ http.ret = "json-1"

\* the seconds of sleep after the failed attempt k + 1 of a call: 2^k
Backoff == <<1, 2, 4>>

\* C31: when the request of attempt k (counted from 0) of _make_api_request
\* fails with a request error, the call sleeps 2^k seconds and goes on to the
\* next attempt if one is left, and returns None without a sleep if the
\* attempt was the last one; a call with max_retries = 3 of which every
\* request failed with a request error has slept exactly 1 and then 2
\* seconds.
C31_ExponentialBackoff ==
  [][(http.pos = "attempt" /\ Len(http'.responses) = Len(http.responses) + 1
       /\ http'.responses[Len(http'.responses)].kind \in RequestErrors) =>
       /\ IF http.attempt + 1 < http.max_retries
          THEN /\ http'.sleeps = Append(http.sleeps, Backoff[http.attempt + 1])
               /\ http'.pos = "attempt" /\ http'.attempt = http.attempt + 1
          ELSE /\ http'.sleeps = http.sleeps
               /\ http'.pos = "returned" /\ http'.ret = None
       /\ (http'.pos = "returned" /\ http.max_retries = 3
            /\ Got(RequestErrors)' = 1..3) =>
            http'.sleeps = <<1, 2>>]_vars

\* three requests of a call with max_retries = 3 failed with request errors
C31_Witness ==
  /\ http.pos = "returned" /\ http.max_retries = 3 /\ http.requests = 3
  /\ Got(RequestErrors) = 1..3 /\ http.sleeps = <<1, 2>> /\ http.ret = None

\* C32 as stated: a 429 response makes _make_api_request wait the seconds of
\* its Retry-After header (5 when the header is absent) and then request
\* again, and the call returns the data of the successful response that
\* follows the rate-limited ones.
C32_RateLimitHandling ==
  [][(http.pos = "attempt" /\ Len(http'.responses) = Len(http.responses) + 1
       /\ http'.responses[Len(http'.responses)].kind = "429") =>
       LET header == http'.responses[Len(http'.responses)].header
       IN /\ Len(http'.sleeps) = Len(http.sleeps) + 1
          /\ header = None => http'.sleeps[Len(http'.sleeps)] = 5
          /\ header = "2" => http'.sleeps[Len(http'.sleeps)] = 2
          /\ http'.pos = "attempt"]_vars

\* the only request of a call with max_retries = 1 was answered 429 with
\* Retry-After: 2; the call slept 2 seconds and returned None
C32_SleptThenGaveUp ==
  /\ http.pos = "returned" /\ http.max_retries = 1 /\ http.requests = 1
  /\ http.responses[1].kind = "429" /\ http.responses[1].header = "2"
  /\ http.sleeps = <<2>> /\ http.ret = None

\* a 429 response with an HTTP date in Retry-After ended the call at once
C32_DateHeader ==
  /\ http.pos = "returned" /\ http.max_retries = 3 /\ http.requests = 1
  /\ http.responses[1].kind = "429"
  /\ http.responses[1].header \notin {None, "2"}
  /\ http.sleeps = <<>> /\ http.ret = None

\* the clauses of C32 that hold: a 429 response with an absent or numeric
\* Retry-After makes the call sleep that number of seconds (5 when absent),
\* and another request follows when an attempt is left; a successful
\* response that follows rate-limited ones within max_retries attempts is
\* the last one and its data is returned.
C32_WaitsRetryAfter ==
  [][(http.pos = "attempt" /\ Len(http'.responses) = Len(http.responses) + 1
       /\ http'.responses[Len(http'.responses)].kind = "429"
       /\ http'.responses[Len(http'.responses)].header \in {None, "2"}) =>
       LET header == http'.responses[Len(http'.responses)].header
       IN /\ http'.sleeps = Append(http.sleeps, IF header = None THEN 5 ELSE 2)
          /\ http.attempt + 1 < http.max_retries => http'.pos = "attempt"]_vars

\* the pages of a sequence that have a title
Titled(pages) == SelectSeq(pages, LAMBDA page_title : page_title # <<>>)

\* C33: _get_all_pages yields the pages of every response in response order
\* (the items list_items hands to run() are the titled pages received, in
\* order, and every page received is consumed before the next page request
\* and before the enumeration ends); each page request after the first
\* carries the continue entry of the response before it and the first
\* carries none; request_delay has been slept exactly once between two
\* consecutive page requests; no page request follows a response without a
\* continue entry or a request that failed for good, and after a failed
\* request the pages received so far are yielded and nothing is raised.
C33_GetAllPages ==
  [][conn = "mediawiki" =>
       /\ yielded' = yielded + 1 =>
            call'.item.source_ref = Titled(gen.listed)[yielded + 1]
       /\ gen'.delays \in {gen.delays, gen.delays + 1}
       /\ gen'.calls = gen.calls + 1 =>
            /\ gen.pages = <<>>
            /\ gen.delays = gen.calls
            /\ IF gen.calls = 0 THEN gen'.sent.token = None
               ELSE /\ gen.prev.kind = "ok" /\ gen.prev.next # None
                    /\ gen'.sent.token = gen.prev.next
       /\ (gen'.requests = gen.requests + 1 /\ gen'.prev.kind = "ok"
             /\ gen'.prev.next = None) => gen'.pos # "request"
       /\ (gen'.requests = gen.requests + 1 /\ enumFailed' /\ ~enumFailed) =>
            /\ gen'.pos \in {"yielding", "done"} /\ gen'.ended
            /\ gen'.pages = <<>>
       /\ (gen'.pos = "done" /\ enumFailed') =>
            yielded' = Len(Titled(gen'.listed))
       /\ (gen'.pos = "done" /\ gen'.prev.kind = "ok") =>
            yielded' = Len(Titled(gen'.listed))]_vars

\* two responses were received, the second requested with the continue entry
\* of the first after one sleep, and their titled pages were yielded in order
C33_Witness ==
  /\ conn = "mediawiki" /\ gen.calls = 2 /\ gen.delays = 1
  /\ gen.sent.token = "Page_3" /\ gen.prev.kind = "ok" /\ gen.prev.next = None
  /\ gen.listed = << <<"c">>, <<>>, <<"a", "_", "b">> >>
  /\ yielded = 2 /\ gen.pos = "done"

\* the second page request failed for good and the page received was yielded
C33_WitnessFailed ==
  /\ conn = "mediawiki" /\ gen.calls = 2 /\ enumFailed
  /\ gen.listed = << <<"c">> >> /\ yielded = 1 /\ gen.pos = "done"

\* C34 as stated: for a source whose items and contents do not change, every
\* run of a fresh job after the first run in which no step failed reports 0
\* ingested, makes no delete_previous_embeddings or insert_documents call and
\* adds no ledger row, whatever items the source lists.
C34_SteadyStateIdempotence ==
  runs.steady => runs.report = NoReport

\* the keys of the listed items are pairwise different
DistinctKeys ==
  \A m, n \in 1..Len(runs.items) :
    get_item_name(runs.items[m]) = get_item_name(runs.items[n]) => m = n

\* C34 for a source no two items of which map to the same key and for later
\* runs in which no step fails either: the runs after a run in which no step
\* failed report 0 ingested, make no delete_previous_embeddings or
\* insert_documents call and add no ledger row.
C34_SteadyStateDistinctKeys ==
  (runs.steady /\ DistinctKeys /\ runs.clean) => runs.report = NoReport

\* items "c" and "a_b" hold the same content: "a_b" is skipped as a duplicate
\* in the run without failure, and ingested in the next run, in which the
\* fetch of "c" fails
C34_WitnessLateIngestion ==
  /\ runs.steady /\ DistinctKeys /\ ~runs.clean /\ runs.changes = 0
  /\ Len(runs.items) = 2 /\ runs.nth > 2
  /\ runs.content[runs.items[1]] = runs.content[runs.items[2]]
  /\ runs.outcome[runs.items[2]] = "ingested" /\ runs.report.ingested = 1

\* the second run after a run without failure over a source of two items
\* with different keys has ended
C34_WitnessDistinctKeys ==
  /\ runs.steady /\ DistinctKeys /\ Len(runs.items) = 2
  /\ runs.done = 3 /\ runs.pos = "idle" /\ runs.failures = 0
  /\ runs.outcome[runs.items[1]] = "skipped-unchanged"
  /\ runs.outcome[runs.items[2]] = "skipped-unchanged"

\* items "a/b" and "a_b" with different contents are ingested again in the
\* run after a run without failure
C34_WitnessCollision ==
  /\ runs.steady /\ ~DistinctKeys /\ runs.failures = 0 /\ runs.changes = 0
  /\ runs.done = 1 /\ runs.pos = "running" /\ runs.nth > 2
  /\ runs.report.ingested = 2 /\ runs.report.rows = 2

\* the number of ledger rows of a key
RowCount(key) ==
  BagCardinality([r \in RowsOf(ledger, key) |-> CopiesIn(r, ledger)])

\* the versions the ledger holds for a key
VersionsOf(key) == {r.version : r \in RowsOf(ledger, key)}

\* C35: with one job running at a time, after any sequence of process_item
\* calls in which any steps raised, the versions of the ledger rows of every
\* key are 1..n without a gap and without a repetition, n being the number
\* of rows of the key.
C35_VersionsContiguous ==
  \A key \in Keys :
    /\ VersionsOf(key) = 1..RowCount(key)
    /\ \A v \in VersionsOf(key) :
         BagCardinality([r \in {x \in RowsOf(ledger, key) : x.version = v}
                           |-> CopiesIn(r, ledger)]) = 1

\* a key has two rows after a run in which a step of a call raised after
\* the previous embeddings had been deleted
C35_Witness ==
  /\ failures = 1 /\ HasCall /\ call.ret = 1 /\ call.version = 2
  /\ RowCount(CallKey) = 2 /\ VersionsOf(CallKey) = {1, 2}

\* C36 as stated: under every interleaving of two job instances that process
\* items of the same ledger key, the ledger never holds two rows of the key
\* with the same version, and the store never holds documents of two
\* different versions of the key.
C36_SharedKeyConsistency ==
  LET key == get_item_name(SharedItem)
  IN /\ \A r \in RowsOf(ledger, key) : CopiesIn(r, ledger) = 1
     /\ \A r1, r2 \in RowsOf(ledger, key) : r1.version = r2.version => r1 = r2
     /\ \A d1, d2 \in DocsOf(store, key) : d1.version = d2.version

\* both instances read an empty ledger and both recorded version 1
C36_TwoRowsOneVersion ==
  LET key == get_item_name(SharedItem)
  IN \E r1, r2 \in RowsOf(ledger, key) : r1.version = r2.version /\ r1 # r2

\* the store holds version 1 and version 2 of the key
C36_TwoVersionsStored ==
  LET key == get_item_name(SharedItem)
  IN \E d1, d2 \in DocsOf(store, key) : d1.version = 1 /\ d2.version = 2

\* C37 as stated: every checksum that enters the Seen-Set belongs to content
\* that the call ingested (insert and record completed) or found unchanged
\* against the ledger, so that an item is skipped as a duplicate only if a
\* ledger row carries the checksum of its content, and a checksum whose item
\* failed at a later step does not suppress a later item of the same
\* content.
C37_SeenSetVerified ==
  [][yielded' = yielded + 1 =>
       /\ \A cs \in Held(seen') \ Held(seen) :
            /\ cs = call'.checksum
            /\ call'.outcome \in {"ingested", "skipped-unchanged"}
       /\ call'.outcome = "skipped-duplicate" =>
            \E r \in BagToSet(ledger) : r.checksum = call'.checksum]_vars

\* an item is skipped as a duplicate of content that no ledger row carries:
\* the call that put the checksum into the Seen-Set raised at a later step
C37_SuppressedAfterFailure ==
  /\ HasCall /\ call.outcome = "skipped-duplicate" /\ failures = 1
  /\ call.checksum \in Held(seen)
  /\ \A r \in BagToSet(ledger) : r.checksum # call.checksum
  /\ \A i \in Items : ingested[i] # call.content

\* C38: an item whose update deleted the previous embeddings of its key and
\* then failed in insert_documents, and whose key has had no document since,
\* is not skipped as unchanged when a later run of a fresh job processes it
\* with the same source content; and when no step of that later run has
\* failed, the call for the item leaves the key with that content indexed,
\* and nothing else, and with a latest ledger row that carries the checksum
\* of that content.
C38_RecoveryAfterFailedUpdate ==
  [][(runs.pos = "running" /\ runs'.nth = runs.nth + 1
       /\ runs.items[runs.nth] \in runs.broken
       /\ DocsOf(store, get_item_name(runs.items[runs.nth])) = {}) =>
       LET item == runs.items[runs.nth]
           key == get_item_name(item)
       IN /\ runs'.outcome[item] # "skipped-unchanged"
          /\ runs'.clean =>
               /\ {d.text : d \in DocsOf(store', key)} = {runs.content[item]}
               /\ \A latest \in get_latest_record(ledger', key) :
                    /\ latest # <<>>
                    /\ latest[1].checksum = md5(runs.content[item])]_vars

\* the first clause of C38: an item whose update deleted the previous
\* embeddings and then failed in insert_documents, and whose key has no
\* document since, is not skipped as unchanged by a later run over the same
\* content.
C38_NotSkippedAsUnchanged ==
  [][(runs.pos = "running" /\ runs'.nth = runs.nth + 1
       /\ runs.items[runs.nth] \in runs.broken
       /\ DocsOf(store, get_item_name(runs.items[runs.nth])) = {}) =>
       runs'.outcome[runs.items[runs.nth]] # "skipped-unchanged"]_vars

\* the update of "a_b" failed in insert_documents after the delete, in a run
\* in which the fetch of "c", an item of the same content, failed too; in the
\* next run, in which no step fails, "a_b" is skipped as a duplicate of "c"
\* and its key is left with the old ledger row and no document
C38_NeverRecovered ==
  /\ runs.pos = "idle" /\ runs.clean /\ runs.done = 3 /\ runs.changes = 1
  /\ runs.failures = 2 /\ Len(runs.items) = 2 /\ DistinctKeys
  /\ runs.items[2] \in runs.broken
  /\ runs.outcome[runs.items[1]] = "skipped-unchanged"
  /\ runs.outcome[runs.items[2]] = "skipped-duplicate"
  /\ DocsOf(store, get_item_name(runs.items[2])) = {}
  /\ \A latest \in get_latest_record(ledger, get_item_name(runs.items[2])) :
       latest # <<>> /\ latest[1].checksum # md5(runs.content[runs.items[2]])

\* the update of an item failed in insert_documents after the delete in the
\* second run, and the third run indexed its content again
C38_WitnessRecovered ==
  /\ runs.done = 3 /\ runs.pos = "idle" /\ runs.failures = 1
  /\ runs.changes = 1 /\ runs.broken = {} /\ Len(runs.items) = 1
  /\ LET item == runs.items[1]
         key == get_item_name(item)
     IN /\ runs.outcome[item] = "ingested" /\ runs.content[item] = "new"
        /\ {r.version : r \in RowsOf(ledger, key)} = {1, 2}
        /\ {d.text : d \in DocsOf(store, key)} = {"new"}

\* C39: S3 list_items requests no page of a bucket twice: the request that
\* follows a truncated listing response of the same bucket carries a
\* continuation token, the one of that response; a request without a token
\* is the first request of its bucket; and a listing request that fails
\* makes the enumeration go on to the next bucket.
C39_S3NoRestart ==
  [][(conn = "s3" /\ gen'.requests = gen.requests + 1) =>
       /\ (gen.prev.bucket = gen.bucket /\ gen.prev.kind = "ok"
             /\ gen.prev.truncated) =>
            /\ gen'.sent.token # None
            /\ gen'.sent.token = gen.prev.next
       /\ gen'.sent.token = None => gen.prev.bucket # gen.bucket
       /\ gen'.prev.kind = "error" =>
            /\ gen'.bucket = gen.bucket + 1
            /\ gen'.pos \in {"request", "done"}]_vars

\* what holds of the requests: a truncated response that has a
\* NextContinuationToken is followed by a request of the same bucket with
\* that token, a response that is not truncated by no request of that bucket,
\* and a failed request by the next bucket.
C39_S3TokenWhenGiven ==
  [][(conn = "s3" /\ gen'.requests = gen.requests + 1) =>
       /\ (gen.prev.bucket = gen.bucket /\ gen.prev.next # None) =>
            /\ gen.prev.kind = "ok" /\ gen.prev.truncated
            /\ gen'.sent.token = gen.prev.next
       /\ gen.prev.bucket = gen.bucket => gen.prev.truncated
       /\ gen'.prev.kind = "error" =>
            /\ gen'.bucket = gen.bucket + 1
            /\ gen'.pos \in {"request", "done"}]_vars

\* the first response of the first bucket was truncated and had no
\* NextContinuationToken: the second request of that bucket carried no
\* token, listed the first page again, and its object was yielded a second
\* time
C39_Restarted ==
  /\ conn = "s3" /\ gen.requests = 2 /\ gen.bucket = 1
  /\ gen.sent.token = None
  /\ gen.listed = << <<"c">> >> /\ gen.nth = 1
  /\ yielded = 2

\* the request after a failed listing request went to the second bucket
C39_WitnessAbandoned ==
  /\ conn = "s3" /\ gen.requests = 2 /\ gen.bucket = 2
  /\ enumFailed /\ gen.sent.token = None /\ gen.pos = "yielding"

====
